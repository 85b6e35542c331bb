------------------------ MODULE StreamingDecoderProofs ------------------------
(***************************************************************************)
(* For any calls, text, parsers and limits, and however the provider cuts  *)
(* its reply: text is read by one branch only; and, for the arguments a    *)
(* provider can cut without the decoder mistaking a fragment for one that  *)
(* came again, the structured calls are handed out whole and once, and     *)
(* none is missed.                                                         *)
(***************************************************************************)
EXTENDS StreamingDecoder, LibraryLemmas

-----------------------------------------------------------------------------
(***************************************************************************)
(* Hypotheses about the provider                                           *)
(***************************************************************************)
\* Some piece of a text comes twice in a row.
Doubled(text) ==
  \E k \in 0..Len(text), n \in 1..Len(text) :
    /\ k + n + n <= Len(text)
    /\ SubSeq(text, k + 1, k + n) = SubSeq(text, k + n + 1, k + n + n)

\* A provider that sends what is new never has to send a piece again right away.
Unambiguous ==
  "new" \in Styles => \A i \in Indices : ~Doubled(Arguments[i])

\* No text that reads as an object or an array goes on.
Closed ==
  \A i \in Indices : \A n \in 0..(Len(Arguments[i]) - 1) :
    SubSeq(Arguments[i], 1, n) \notin Documents

-----------------------------------------------------------------------------
(***************************************************************************)
(* Fragments                                                               *)
(***************************************************************************)
\* A part of a sequence, and a part from its start.
LEMMA PartFacts ==
  ASSUME NEW S, NEW a \in Seq(S), NEW n \in 0..Len(a), NEW m \in 0..n,
         NEW part, part = SubSeq(a, m + 1, n)
  PROVE  /\ part \in Seq(S)
         /\ Len(part) = n - m
         /\ \A k \in 1..(n - m) : part[k] = a[m + k]
         /\ part = <<>> => m = n
         /\ m = n => part = <<>>
<1>1. n \in Nat /\ m \in Nat /\ Len(a) \in Nat /\ n - m \in Nat
  OBVIOUS
<1>2. \A k \in (m + 1)..n : a[k] \in S
  BY <1>1
<1>3. /\ part \in Seq(S)
      /\ Len(part) = n - m
  BY <1>1, <1>2
<1>4. ASSUME NEW k \in 1..(n - m)
      PROVE  part[k] = a[m + k]
  BY <1>1, <1>4
<1>5. /\ part = <<>> => m = n
      /\ m = n => part = <<>>
  BY <1>1, <1>3
<1> QED
  BY <1>3, <1>4, <1>5

LEMMA StartFacts ==
  ASSUME NEW S, NEW a \in Seq(S), NEW n \in 0..Len(a),
         NEW start, start = SubSeq(a, 1, n)
  PROVE  /\ start \in Seq(S)
         /\ Len(start) = n
         /\ \A k \in 1..n : start[k] = a[k]
         /\ start = <<>> => n = 0
         /\ n = 0 => start = <<>>
<1>1. /\ 0 \in 0..n /\ 0 + 1 = 1 /\ n - 0 = n /\ n \in Nat
      /\ \A k \in 1..n : 0 + k = k
  OBVIOUS
<1>2. start = SubSeq(a, 0 + 1, n)
  BY <1>1
<1>3. /\ start \in Seq(S)
      /\ Len(start) = n - 0
      /\ \A k \in 1..(n - 0) : start[k] = a[0 + k]
      /\ start = <<>> => 0 = n
      /\ 0 = n => start = <<>>
  BY <1>1, <1>2, PartFacts
<1> QED
  BY <1>1, <1>3

\* What a prefix and a suffix have in common with the whole.
LEMMA PrefixMeans ==
  ASSUME NEW S, NEW s \in Seq(S), NEW t \in Seq(S), IsPrefix(s, t)
  PROVE  Len(s) <= Len(t) /\ \A k \in 1..Len(s) : s[k] = t[k]
<1>1. Len(s) <= Len(t) /\ SubSeq(s, 1, Len(s)) = SubSeq(t, 1, Len(s))
  BY DEF IsPrefix
<1>2. Len(s) \in Nat /\ Len(t) \in Nat
  OBVIOUS
<1>3. ASSUME NEW k \in 1..Len(s)
      PROVE  s[k] = t[k]
  <2>1. SubSeq(s, 1, Len(s))[k] = s[k] /\ SubSeq(t, 1, Len(s))[k] = t[k]
    BY <1>1, <1>2
  <2> QED
    BY <1>1, <2>1
<1> QED
  BY <1>1, <1>3

LEMMA PrefixIs ==
  ASSUME NEW S, NEW s \in Seq(S), NEW t \in Seq(S), Len(s) <= Len(t),
         \A k \in 1..Len(s) : s[k] = t[k]
  PROVE  IsPrefix(s, t)
<1>1. Len(s) \in Nat /\ Len(t) \in Nat
  OBVIOUS
<1>2. /\ SubSeq(s, 1, Len(s)) \in Seq(S) /\ SubSeq(t, 1, Len(s)) \in Seq(S)
      /\ Len(SubSeq(s, 1, Len(s))) = Len(s)
      /\ Len(SubSeq(t, 1, Len(s))) = Len(s)
  BY <1>1
<1>3. \A k \in 1..Len(s) : SubSeq(s, 1, Len(s))[k] = SubSeq(t, 1, Len(s))[k]
  BY <1>1
<1>4. SubSeq(s, 1, Len(s)) = SubSeq(t, 1, Len(s))
  BY <1>2, <1>3, SeqEqual
<1> QED
  BY <1>4 DEF IsPrefix

LEMMA SuffixMeans ==
  ASSUME NEW S, NEW s \in Seq(S), NEW t \in Seq(S)
  PROVE  IsSuffix(s, t) <=>
           /\ Len(s) <= Len(t)
           /\ \A k \in 1..Len(s) : s[k] = t[Len(t) - Len(s) + k]
<1>1. Len(s) \in Nat /\ Len(t) \in Nat
  OBVIOUS
<1>2. /\ Reverse(s) \in Seq(S) /\ Len(Reverse(s)) = Len(s)
      /\ Reverse(t) \in Seq(S) /\ Len(Reverse(t)) = Len(t)
      /\ \A k \in 1..Len(s) : Reverse(s)[k] = s[Len(s) - k + 1]
      /\ \A k \in 1..Len(t) : Reverse(t)[k] = t[Len(t) - k + 1]
  BY <1>1 DEF Reverse
<1>3. ASSUME IsSuffix(s, t)
      PROVE  /\ Len(s) <= Len(t)
             /\ \A k \in 1..Len(s) : s[k] = t[Len(t) - Len(s) + k]
  <2>1. /\ Len(s) <= Len(t)
        /\ \A k \in 1..Len(s) : Reverse(s)[k] = Reverse(t)[k]
    BY <1>2, <1>3, PrefixMeans DEF IsSuffix
  <2>2. ASSUME NEW k \in 1..Len(s)
        PROVE  s[k] = t[Len(t) - Len(s) + k]
    <3>0. Len(s) - k + 1 \in 1..Len(s)
      BY <1>1
    <3>1. PICK j \in 1..Len(s) : j = Len(s) - k + 1
      BY <3>0
    <3>2. Reverse(s)[j] = Reverse(t)[j] /\ j \in 1..Len(t)
      BY <1>1, <2>1
    <3>3. Len(s) - j + 1 = k /\ Len(t) - j + 1 = Len(t) - Len(s) + k
      BY <1>1, <3>1
    <3>4. Reverse(s)[j] = s[k] /\ Reverse(t)[j] = t[Len(t) - Len(s) + k]
      BY <1>2, <3>2, <3>3
    <3> QED
      BY <3>2, <3>4
  <2> QED
    BY <2>1, <2>2
<1>4. ASSUME Len(s) <= Len(t),
             \A k \in 1..Len(s) : s[k] = t[Len(t) - Len(s) + k]
      PROVE  IsSuffix(s, t)
  <2>1. ASSUME NEW k \in 1..Len(s)
        PROVE  Reverse(s)[k] = Reverse(t)[k]
    <3>0. Len(s) - k + 1 \in 1..Len(s)
      BY <1>1
    <3>1. PICK j \in 1..Len(s) : j = Len(s) - k + 1
      BY <3>0
    <3>2. s[j] = t[Len(t) - Len(s) + j] /\ k \in 1..Len(t)
      BY <1>1, <1>4
    <3>3. Len(t) - Len(s) + j = Len(t) - k + 1
      BY <1>1, <3>1
    <3> QED
      BY <1>2, <3>1, <3>2, <3>3
  <2> QED
    BY <1>2, <1>4, <2>1, PrefixIs DEF IsSuffix
<1> QED
  BY <1>3, <1>4

\* What is new goes after what there is, if it cannot be taken for a repetition.
LEMMA NewIsMerged ==
  ASSUME NEW S, NEW a \in Seq(S), NEW n \in 0..Len(a), NEW m \in 0..n,
         ~Doubled(a)
  PROVE  MergeFragment(SubSeq(a, 1, m), SubSeq(a, m + 1, n)) = SubSeq(a, 1, n)
<1>a. PICK current : current = SubSeq(a, 1, m)
  OBVIOUS
<1>b. PICK fragment : fragment = SubSeq(a, m + 1, n)
  OBVIOUS
<1>c. PICK whole : whole = SubSeq(a, 1, n)
  OBVIOUS
<1>1. /\ current = SubSeq(a, 1, m) /\ fragment = SubSeq(a, m + 1, n)
      /\ whole = SubSeq(a, 1, n)
  BY <1>a, <1>b, <1>c
<1>2. n \in Nat /\ m \in Nat /\ Len(a) \in Nat /\ m <= n /\ n <= Len(a)
  OBVIOUS
<1>3. /\ current \in Seq(S) /\ Len(current) = m
      /\ \A k \in 1..m : current[k] = a[k]
      /\ current = <<>> => m = 0
      /\ m = 0 => current = <<>>
  <2>1. m \in 0..Len(a)
    BY <1>2
  <2> QED
    BY <1>a, <2>1, StartFacts
<1>4. /\ fragment \in Seq(S) /\ Len(fragment) = n - m
      /\ \A k \in 1..(n - m) : fragment[k] = a[m + k]
      /\ fragment = <<>> => m = n
  <2>1. a \in Seq(S) /\ n \in 0..Len(a) /\ m \in 0..n
    OBVIOUS
  <2>2. /\ fragment \in Seq(S)
        /\ Len(fragment) = n - m
        /\ \A k \in 1..(n - m) : fragment[k] = a[m + k]
        /\ fragment = <<>> => m = n
    BY ONLY <1>b, <2>1, PartFacts, SMTT(30)
  <2> QED
    BY <2>2
<1>5. /\ whole \in Seq(S) /\ Len(whole) = n
      /\ \A k \in 1..n : whole[k] = a[k]
  BY <1>c, StartFacts
<1>6. CASE fragment = <<>>
  BY <1>1, <1>4, <1>6 DEF MergeFragment
<1>7. CASE fragment # <<>> /\ current = <<>>
  <2>1. m + 1 = 1
    BY <1>2, <1>3, <1>7
  <2>2. fragment = whole
    BY <1>1, <2>1
  <2> QED
    BY <1>1, <1>7, <2>2 DEF MergeFragment
<1>8. CASE fragment # <<>> /\ current # <<>>
  <2>1. m >= 1 /\ n >= m + 1
    BY <1>2, <1>3, <1>4, <1>8
  <2>2. ~IsPrefix(current, fragment)
    <3> SUFFICES ASSUME IsPrefix(current, fragment) PROVE FALSE
      OBVIOUS
    <3>1. m <= n - m /\ \A k \in 1..m : current[k] = fragment[k]
      <4>1. /\ Len(current) <= Len(fragment)
            /\ \A k \in 1..Len(current) : current[k] = fragment[k]
        BY <1>3, <1>4, PrefixMeans, SMTT(30)
      <4> QED
        BY <1>3, <1>4, <4>1
    <3>2. ASSUME NEW k \in 1..m
          PROVE  a[k] = a[m + k]
      <4>1. k \in 1..(n - m)
        BY <1>2, <3>1
      <4>2. current[k] = fragment[k]
        BY <3>1
      <4> QED
        BY <1>3, <1>4, <4>1, <4>2
    <3>3. 0 \in 0..Len(a) /\ m \in 1..Len(a) /\ 0 + m + m <= Len(a)
      BY <1>2, <2>1, <3>1
    <3>4. SubSeq(a, 0 + 1, 0 + m) = SubSeq(a, 0 + m + 1, 0 + m + m)
      BY <1>2, <3>2, <3>3
    <3> QED
      BY <3>3, <3>4 DEF Doubled
  <2>3. ~IsSuffix(fragment, current)
    <3> SUFFICES ASSUME IsSuffix(fragment, current) PROVE FALSE
      OBVIOUS
    <3>0. n - m \in Nat
      BY <1>2
    <3>1. PICK d \in Nat : d = n - m
      BY <3>0
    <3>2. d <= m /\ \A k \in 1..d : fragment[k] = current[m - d + k]
      <4>1. /\ Len(fragment) <= Len(current)
            /\ \A k \in 1..Len(fragment) :
                 fragment[k] = current[Len(current) - Len(fragment) + k]
        <5>1. fragment \in Seq(S) /\ current \in Seq(S)
          BY <1>3, <1>4
        <5> QED
          BY <5>1, SuffixMeans
      <4>2. Len(fragment) = d /\ Len(current) = m
        BY <1>3, <1>4, <3>1
      <4> QED
        BY <4>1, <4>2
    <3>3. \A k \in 1..d : m - d + k \in 1..m
      BY <1>2, <3>1, <3>2
    <3>4. ASSUME NEW k \in 1..d
          PROVE  a[m - d + k] = a[m + k]
      <4>1. fragment[k] = a[m + k]
        BY <1>4, <3>1
      <4>2. fragment[k] = current[m - d + k]
        BY <3>2
      <4>3. PICK i \in 1..m : i = m - d + k
        BY <3>3
      <4>4. current[i] = a[i]
        BY <1>3
      <4> QED
        BY <4>1, <4>2, <4>3, <4>4
    <3>5. PICK j \in 0..Len(a) : j = m - d
      BY <1>2, <3>2
    <3>6. d \in 1..Len(a) /\ j + d + d <= Len(a) /\ j + d = m
      BY <1>2, <2>1, <3>1, <3>2, <3>5
    <3>7. \A k \in 1..d : a[j + k] = a[j + d + k]
      <4>1. ASSUME NEW k \in 1..d
            PROVE  j + k = m - d + k /\ j + d + k = m + k
        BY <1>2, <3>1, <3>5
      <4> QED
        BY <3>4, <4>1
    <3>8. SubSeq(a, j + 1, j + d) = SubSeq(a, j + d + 1, j + d + d)
      BY <1>2, <3>6, <3>7
    <3> QED
      BY <3>6, <3>8 DEF Doubled
  <2>4. MergeFragment(current, fragment) = current \o fragment
    BY <1>8, <2>2, <2>3 DEF MergeFragment
  <2>5. /\ current \o fragment \in Seq(S)
        /\ Len(current \o fragment) = n
        /\ \A k \in 1..n : (current \o fragment)[k] = a[k]
    <3>1. /\ current \o fragment \in Seq(S)
          /\ Len(current \o fragment) = Len(current) + Len(fragment)
      <4>1. fragment \in Seq(S) /\ current \in Seq(S)
        BY <1>3, <1>4
      <4> QED
        BY <4>1
    <3>2. ASSUME NEW k \in 1..n
          PROVE  (current \o fragment)[k] = a[k]
      <4>1. CASE k <= m
        BY <1>2, <1>3, <1>4, <4>1
      <4>2. CASE ~(k <= m)
        <5>1. k - m \in 1..(n - m) /\ m + (k - m) = k
          BY <1>2, <4>2
        <5>2. (current \o fragment)[k] = fragment[k - m]
          BY <1>2, <1>3, <1>4, <4>2, <5>1
        <5> QED
          BY <1>4, <5>1, <5>2
      <4> QED
        BY <4>1, <4>2
    <3>3. Len(current \o fragment) = n
      BY <1>2, <1>3, <1>4, <3>1
    <3> QED
      BY <3>1, <3>2, <3>3
  <2>6. current \o fragment = whole
    BY <1>5, <2>5, SeqEqual
  <2> QED
    BY <1>1, <2>4, <2>6
<1> QED
  BY <1>6, <1>7, <1>8

\* All there is so far replaces what there is.
LEMMA AllIsMerged ==
  ASSUME NEW S, NEW a \in Seq(S), NEW n \in 0..Len(a), NEW m \in 0..n
  PROVE  MergeFragment(SubSeq(a, 1, m), SubSeq(a, 1, n)) = SubSeq(a, 1, n)
<1>1. PICK current, whole : current = SubSeq(a, 1, m) /\ whole = SubSeq(a, 1, n)
  OBVIOUS
<1>2. n \in Nat /\ m \in Nat /\ Len(a) \in Nat /\ m <= n /\ n <= Len(a)
  OBVIOUS
<1>3. /\ current \in Seq(S) /\ Len(current) = m
      /\ \A k \in 1..m : current[k] = a[k]
      /\ current = <<>> => m = 0
      /\ m = 0 => current = <<>>
  <2>1. m \in 0..Len(a)
    BY <1>2
  <2> QED
    BY <1>1, <2>1, StartFacts
<1>4. /\ whole \in Seq(S) /\ Len(whole) = n
      /\ \A k \in 1..n : whole[k] = a[k]
      /\ whole = <<>> => n = 0
  BY <1>1, StartFacts
<1>5. IsPrefix(current, whole)
  <2>1. Len(current) <= Len(whole)
        /\ \A k \in 1..Len(current) : current[k] = whole[k]
    BY <1>2, <1>3, <1>4
  <2> QED
    BY <1>3, <1>4, <2>1, PrefixIs
<1>6. whole = <<>> => current = <<>>
  BY <1>2, <1>3, <1>4
<1> QED
  BY <1>1, <1>5, <1>6 DEF MergeFragment

\* The end of what there is changes nothing when it comes again.
LEMMA RepetitionIsMerged ==
  ASSUME NEW S, NEW a \in Seq(S), NEW n \in 0..Len(a), NEW m \in 0..n
  PROVE  MergeFragment(SubSeq(a, 1, n), SubSeq(a, m + 1, n)) = SubSeq(a, 1, n)
<1>b. PICK fragment : fragment = SubSeq(a, m + 1, n)
  OBVIOUS
<1>c. PICK whole : whole = SubSeq(a, 1, n)
  OBVIOUS
<1>1. fragment = SubSeq(a, m + 1, n) /\ whole = SubSeq(a, 1, n)
  BY <1>b, <1>c
<1>2. n \in Nat /\ m \in Nat /\ Len(a) \in Nat /\ m <= n /\ n <= Len(a)
  OBVIOUS
<1>3. /\ fragment \in Seq(S) /\ Len(fragment) = n - m
      /\ \A k \in 1..(n - m) : fragment[k] = a[m + k]
      /\ fragment = <<>> => m = n
  BY <1>b, PartFacts, SMTT(30)
<1>4. /\ whole \in Seq(S) /\ Len(whole) = n
      /\ \A k \in 1..n : whole[k] = a[k]
      /\ whole = <<>> => n = 0
  BY <1>c, StartFacts
<1>5. CASE fragment = <<>>
  BY <1>1, <1>5 DEF MergeFragment
<1>6. CASE fragment # <<>> /\ (whole = <<>> \/ IsPrefix(whole, fragment))
  <2>1. n <= n - m
    BY <1>2, <1>3, <1>4, <1>6, PrefixMeans
  <2>2. m = 0 /\ m + 1 = 1
    BY <1>2, <2>1
  <2>3. fragment = whole
    BY <1>1, <2>2
  <2> QED
    BY <1>1, <1>6, <2>3 DEF MergeFragment
<1>7. CASE /\ fragment # <<>> /\ whole # <<>>
           /\ ~IsPrefix(whole, fragment)
  <2>1. PICK d \in Nat : d = n - m
    BY <1>2
  <2>2. \A k \in 1..d : fragment[k] = whole[n - d + k]
    <3>1. \A k \in 1..d : n - d + k = m + k /\ m + k \in 1..n
      BY <1>2, <2>1
    <3> QED
      BY <1>3, <1>4, <2>1, <3>1
  <2>3. Len(fragment) <= Len(whole)
    BY <1>2, <1>3, <1>4
  <2>4. IsSuffix(fragment, whole)
    BY <1>3, <1>4, <2>1, <2>2, <2>3, SuffixMeans
  <2> QED
    BY <1>1, <1>7, <2>4 DEF MergeFragment
<1> QED
  BY <1>5, <1>6, <1>7

-----------------------------------------------------------------------------
(***************************************************************************)
(* The invariant                                                           *)
(***************************************************************************)
Symbols == UNION {Range(text) : text \in InitialTexts \cup {Text}}

Typed ==
  /\ style \in Styles
  /\ sent \in [Indices -> Nat]
  /\ \A i \in Indices : sent[i] <= Len(Arguments[i])
  /\ heard \in 0..Len(Text)
  /\ ended \in BOOLEAN
  /\ buffer \in Seq(Symbols)
  /\ locked \in {NoParser} \cup Range(Parsers)
  /\ DOMAIN structured = Indices
  /\ \A i \in Indices : structured[i].seen \in BOOLEAN

\* A call came in structured deltas, or the parser that is locked on finds it.
TextInv ==
  \A call \in emitted :
    \/ call.format = "structured" /\ \E i \in Indices : structured[i].seen
    \/ locked # NoParser /\ call \in TextCalls(locked, buffer)

\* The last fragment sent is the end of what was sent.
Latest(i) ==
  \E m \in 0..sent[i] : last[i] = SubSeq(Arguments[i], m + 1, sent[i])

\* What is known of a call is what was sent of it.
Known(i) ==
  IF structured[i].seen
  THEN /\ structured[i].id = TRUE
       /\ structured[i].name = Name
       /\ structured[i].arguments = SentOf(i)
       /\ Latest(i)
  ELSE structured[i] = Absent /\ sent[i] = 0

DeltaInv == status # "failed" => \A i \in Indices : Known(i)

\* The one form a call is handed out in.
Handed(i) ==
  [format |-> "structured", index |-> i, id |-> TRUE,
   arguments |-> IF sent[i] = 0 THEN EmptyObject ELSE SentOf(i)]

\* A call that was handed out does not grow any more.
Settled(i) == ended \/ status = "finished" \/ sent[i] = Len(Arguments[i])

HandedInv ==
  \A call \in FromDeltas : \E i \in Indices : call = Handed(i) /\ Settled(i)

LEMMA AssumedFacts ==
  /\ \A i \in Indices : Arguments[i] \in Seq(Range(Arguments[i]))
  /\ \A text \in InitialTexts : text \in Seq(Symbols)
  /\ Text \in Seq(Symbols)
  /\ Len(Text) \in Nat
  /\ \A i \in Indices : Len(Arguments[i]) \in Nat
  /\ Name # NoName
  /\ EmptyObject \in Documents
  /\ <<>> \notin Documents \cup Scalars
  /\ NoParser \notin Range(Parsers)
  /\ "structured" \notin Range(Parsers)
  /\ Styles \subseteq {"new", "all"}
<1>1. ASSUME NEW i \in Indices
      PROVE  Arguments[i] \in Seq(Range(Arguments[i]))
  <2>1. Arguments[i] \in Range(Arguments)
    BY DEF Range, Indices
  <2> QED
    BY <2>1, ReplyAssumption
<1>2. ASSUME NEW text \in InitialTexts \cup {Text}
      PROVE  text \in Seq(Symbols)
  <2>1. text \in Seq(Range(text)) /\ Range(text) \subseteq Symbols
    BY ReplyAssumption DEF Symbols
  <2> QED
    BY <2>1
<1>3. Text \in Seq(Symbols)
  BY <1>2
<1> QED
  BY <1>1, <1>2, <1>3, ReplyAssumption

-----------------------------------------------------------------------------
(***************************************************************************)
(* Text                                                                    *)
(***************************************************************************)
\* What a parser has found it finds again in a longer text.
LEMMA LongerTextHasCalls ==
  ASSUME NEW S, NEW text \in Seq(S), NEW more \in Seq(S), NEW parser
  PROVE  TextCalls(parser, text) \subseteq TextCalls(parser, text \o more)
<1>1. ASSUME NEW i \in DOMAIN text
      PROVE  i \in DOMAIN (text \o more) /\ (text \o more)[i] = text[i]
  BY <1>1
<1> QED
  BY <1>1 DEF TextCalls

\* The branch the text is read by.
LEMMA BranchFacts ==
  ASSUME Typed, NEW text
  PROVE  /\ Branch(text) \in {NoParser} \cup Range(Parsers)
         /\ locked # NoParser => Branch(text) = locked
         /\ Branch(text) = NoParser =>
              \A parser \in Range(Parsers) : ~Finds(parser, text)
<1> DEFINE Found == {i \in DOMAIN Parsers : Finds(Parsers[i], text)}
<1>1. CASE locked # NoParser
  BY <1>1 DEF Branch, Typed
<1>2. CASE locked = NoParser /\ Found = {}
  <2>1. Branch(text) = NoParser
    BY <1>2 DEF Branch
  <2>2. \A parser \in Range(Parsers) : ~Finds(parser, text)
    BY <1>2 DEF Range
  <2> QED
    BY <1>2, <2>1, <2>2
<1>3. CASE locked = NoParser /\ Found # {}
  <2>1. Found \subseteq Nat
    BY ReplyAssumption
  <2>2. Min(Found) \in Found
    BY <1>3, <2>1, MinOfNaturals
  <2>3. Branch(text) = Parsers[Min(Found)]
    BY <1>3 DEF Branch
  <2>4. Branch(text) \in Range(Parsers)
    BY <2>2, <2>3 DEF Range
  <2> QED
    BY <1>3, <2>4, AssumedFacts
<1> QED
  BY <1>1, <1>2, <1>3

\* The states of the structured calls after a chunk's deltas.
Merged(deltas) ==
  [i \in Indices |-> IF i \in DOMAIN deltas
                     THEN ApplyDelta(structured[i], deltas[i])
                     ELSE structured[i]]

LEMMA MergedFacts ==
  ASSUME Typed, NEW deltas, NEW states, states = Merged(deltas)
  PROVE  /\ DOMAIN states = Indices
         /\ \A i \in Indices : states[i].seen \in BOOLEAN
         /\ \A i \in Indices : structured[i].seen => states[i].seen
  BY DEF Merged, Typed, ApplyDelta

\* feed either fails, with nothing but a longer buffer, or reads it.
LEMMA FeedFacts ==
  ASSUME NEW text, NEW deltas, NEW final, Feed(text, deltas, final)
  PROVE  /\ status = "open"
         /\ buffer' = text
         /\ \/ /\ status' = "failed"
               /\ UNCHANGED <<structured, locked, emitted>>
            \/ /\ status' = "open"
               /\ structured' = Merged(deltas)
               /\ Decode(text, Merged(deltas), final)
  BY DEF Feed, Merged

LEMMA DecodeKeepsText ==
  ASSUME Typed, TextInv, NEW text, NEW states, NEW final,
         Decode(text, states, final),
         structured' = states, buffer' = text,
         \A i \in Indices : structured[i].seen => states[i].seen,
         \A parser : TextCalls(parser, buffer) \subseteq TextCalls(parser, text)
  PROVE  TextInv' /\ locked' \in {NoParser} \cup Range(Parsers)
<1>1. CASE \E i \in Indices : states[i].seen
  <2>1. emitted' = emitted \cup StructuredCalls(states, final) /\ locked' = locked
    BY <1>1 DEF Decode
  <2>2. \A call \in StructuredCalls(states, final) : call.format = "structured"
    BY DEF StructuredCalls, StructuredCall
  <2> QED
    BY <1>1, <2>1, <2>2 DEF TextInv, Typed
<1>2. CASE ~\E i \in Indices : states[i].seen
  <2>1. /\ locked' = Branch(text)
        /\ emitted' = emitted \cup
             (IF Branch(text) = NoParser THEN {} ELSE TextCalls(Branch(text), text))
    BY <1>2 DEF Decode
  <2>2. /\ Branch(text) \in {NoParser} \cup Range(Parsers)
        /\ locked # NoParser => Branch(text) = locked
    BY BranchFacts
  <2>3. ASSUME NEW call \in emitted
        PROVE  locked' # NoParser /\ call \in TextCalls(locked', buffer')
    BY <1>2, <2>1, <2>2 DEF TextInv
  <2>4. ASSUME NEW call \in emitted', call \notin emitted
        PROVE  locked' # NoParser /\ call \in TextCalls(locked', buffer')
    BY <2>1, <2>4
  <2> QED
    BY <2>1, <2>2, <2>3, <2>4 DEF TextInv
<1> QED
  BY <1>1, <1>2

LEMMA FeedKeepsText ==
  ASSUME Typed, TextInv, NEW more \in Seq(Symbols), NEW deltas, NEW final,
         Feed(buffer \o more, deltas, final)
  PROVE  /\ TextInv'
         /\ buffer' \in Seq(Symbols)
         /\ locked' \in {NoParser} \cup Range(Parsers)
         /\ DOMAIN structured' = Indices
         /\ \A i \in Indices : structured'[i].seen \in BOOLEAN
         /\ \A i \in Indices : structured[i].seen => structured'[i].seen
<1>0. buffer \o more \in Seq(Symbols)
  BY DEF Typed
<1>1. PICK text \in Seq(Symbols) : text = buffer \o more
  BY <1>0
<1>2. \A parser : TextCalls(parser, buffer) \subseteq TextCalls(parser, text)
  BY <1>1, LongerTextHasCalls DEF Typed
<1>3. /\ buffer' = text
      /\ \/ UNCHANGED <<structured, locked, emitted>>
         \/ /\ structured' = Merged(deltas)
            /\ Decode(text, Merged(deltas), final)
  BY <1>1, FeedFacts
<1>4. CASE UNCHANGED <<structured, locked, emitted>>
  BY <1>2, <1>3, <1>4 DEF TextInv, Typed
<1>5. CASE /\ structured' = Merged(deltas)
           /\ Decode(text, Merged(deltas), final)
  <2>1. PICK states : states = Merged(deltas)
    OBVIOUS
  <2>2. /\ DOMAIN states = Indices
        /\ \A i \in Indices : states[i].seen \in BOOLEAN
        /\ \A i \in Indices : structured[i].seen => states[i].seen
    BY <2>1, MergedFacts
  <2>3. TextInv' /\ locked' \in {NoParser} \cup Range(Parsers)
    BY <1>2, <1>3, <1>5, <2>1, <2>2, DecodeKeepsText
  <2> QED
    BY <1>3, <1>5, <2>1, <2>2, <2>3
<1> QED
  BY <1>3, <1>4, <1>5

LEMMA FinishKeepsText ==
  ASSUME Typed, TextInv, Finish
  PROVE  TextInv' /\ Typed'
<1>1. /\ Decode(buffer, structured, TRUE)
      /\ UNCHANGED <<provider, buffer, structured>>
  BY DEF Finish
<1>2. TextInv' /\ locked' \in {NoParser} \cup Range(Parsers)
  BY <1>1, DecodeKeepsText
<1> QED
  BY <1>1, <1>2 DEF Typed, provider

\* What a provider may send next of a call.
LEMMA ContinuationFacts ==
  ASSUME NEW i, NEW more \in Continuations(i)
  PROVE  /\ more.sent \in sent[i]..Len(Arguments[i])
         /\ more.delta.id \in Ids(i)
         /\ more.delta.name \in Names(i)
         /\ more.delta.arguments = Fragment(i, more.sent)
<1>1. PICK n \in sent[i]..Len(Arguments[i]), id \in Ids(i), name \in Names(i) :
        more = [sent  |-> n,
                delta |-> [id |-> id, name |-> name, arguments |-> Fragment(i, n)]]
  BY DEF Continuations
<1> QED
  BY <1>1

LEMMA ChunkKeepsText ==
  ASSUME Typed, TextInv, Chunk
  PROVE  /\ TextInv' /\ Typed'
         /\ \A i \in Indices : structured[i].seen => structured'[i].seen
<1>1. PICK n \in heard..Len(Text), I \in SUBSET Indices :
      \E more \in [I -> UNION {Continuations(i) : i \in I}] :
       /\ \A i \in I : more[i] \in Continuations(i)
       /\ Feed(buffer \o SubSeq(Text, heard + 1, n),
               [i \in I |-> more[i].delta], ended')
       /\ heard' = n
       /\ sent' = [i \in Indices |-> IF i \in I THEN more[i].sent ELSE sent[i]]
  BY ZenonT(60) DEF Chunk
<1>2. PICK more \in [I -> UNION {Continuations(i) : i \in I}] :
       /\ \A i \in I : more[i] \in Continuations(i)
       /\ Feed(buffer \o SubSeq(Text, heard + 1, n),
               [i \in I |-> more[i].delta], ended')
       /\ heard' = n
       /\ sent' = [i \in Indices |-> IF i \in I THEN more[i].sent ELSE sent[i]]
  BY <1>1
<1>3. SubSeq(Text, heard + 1, n) \in Seq(Symbols) /\ n \in 0..Len(Text)
  <2>1. /\ Text \in Seq(Symbols) /\ n \in 0..Len(Text) /\ heard \in 0..n
    BY AssumedFacts DEF Typed
  <2> QED
    BY <2>1, PartFacts
<1>4. /\ TextInv'
      /\ buffer' \in Seq(Symbols)
      /\ locked' \in {NoParser} \cup Range(Parsers)
      /\ DOMAIN structured' = Indices
      /\ \A i \in Indices : structured'[i].seen \in BOOLEAN
      /\ \A i \in Indices : structured[i].seen => structured'[i].seen
  BY <1>2, <1>3, FeedKeepsText
<1>5. ASSUME NEW i \in Indices
      PROVE  sent'[i] \in Nat /\ sent'[i] <= Len(Arguments[i])
  <2>1. CASE i \in I
    <3>1. more[i] \in Continuations(i) /\ sent'[i] = more[i].sent
      BY <1>2, <2>1
    <3>2. more[i].sent \in sent[i]..Len(Arguments[i])
      BY <3>1, ContinuationFacts
    <3>3. sent[i] \in Nat /\ Len(Arguments[i]) \in Nat
      BY AssumedFacts DEF Typed
    <3> QED
      BY <3>1, <3>2, <3>3
  <2>2. CASE i \notin I
    BY <1>2, <2>2 DEF Typed
  <2> QED
    BY <2>1, <2>2
<1>6. sent' \in [Indices -> Nat]
  BY <1>2, <1>5
<1>7. style' = style /\ ended' \in BOOLEAN
  BY DEF Chunk
<1> QED
  BY <1>2, <1>3, <1>4, <1>5, <1>6, <1>7 DEF Typed

LEMMA RepeatKeepsText ==
  ASSUME Typed, TextInv, Repeat
  PROVE  /\ TextInv' /\ Typed'
         /\ \A i \in Indices : structured[i].seen => structured'[i].seen
<1>1. PICK i \in Indices : Feed(buffer, [j \in {i} |-> Resent(j)], FALSE)
  BY DEF Repeat
<1>2. <<>> \in Seq(Symbols) /\ buffer = buffer \o <<>>
  BY DEF Typed
<1>3. Feed(buffer \o <<>>, [j \in {i} |-> Resent(j)], FALSE)
  BY <1>1, <1>2
<1>4. /\ TextInv'
      /\ buffer' \in Seq(Symbols)
      /\ locked' \in {NoParser} \cup Range(Parsers)
      /\ DOMAIN structured' = Indices
      /\ \A k \in Indices : structured'[k].seen \in BOOLEAN
      /\ \A k \in Indices : structured[k].seen => structured'[k].seen
  BY <1>2, <1>3, FeedKeepsText
<1>5. UNCHANGED <<style, sent, heard, ended>>
  BY DEF Repeat, provider
<1> QED
  BY <1>4, <1>5 DEF Typed

LEMMA InitText == Init => Typed /\ TextInv
<1> SUFFICES ASSUME Init PROVE Typed /\ TextInv
  OBVIOUS
<1>1. TextInv
  BY DEF Init, TextInv
<1>2. /\ sent \in [Indices -> Nat]
      /\ \A i \in Indices : sent[i] <= Len(Arguments[i])
  BY AssumedFacts DEF Init
<1>3. /\ DOMAIN structured = Indices
      /\ \A i \in Indices : structured[i].seen \in BOOLEAN
  BY DEF Init, Absent
<1>4. heard \in 0..Len(Text) /\ buffer \in Seq(Symbols)
  BY AssumedFacts DEF Init
<1> QED
  BY <1>1, <1>2, <1>3, <1>4 DEF Init, Typed

LEMMA NextKeepsText ==
  Typed /\ TextInv /\ [Next]_vars => (Typed /\ TextInv)'
<1> SUFFICES ASSUME Typed, TextInv, [Next]_vars
             PROVE  (Typed /\ TextInv)'
  OBVIOUS
<1>1. CASE UNCHANGED vars
  BY <1>1 DEF vars, provider, Typed, TextInv
<1> QED
  BY <1>1, ChunkKeepsText, RepeatKeepsText, FinishKeepsText DEF Next

LEMMA TextIsRead == Spec => [](Typed /\ TextInv)
<1> QED
  BY InitText, NextKeepsText, PTL DEF Spec

\* Text is read by one branch only, whatever comes, and by none once a
\* structured delta has come: _text_calls keeps _locked_parser, and is not
\* called any more.
THEOREM TextHasOneReader == Spec => OneBranch
<1>1. ASSUME Typed, TextInv, [Next]_vars
      PROVE  [/\ \A call, other \in FromText' : call.format = other.format
              /\ (\E i \in Indices : structured[i].seen) => FromText' = FromText]_vars
  <2> SUFFICES ASSUME Next
               PROVE  /\ \A call, other \in FromText' : call.format = other.format
                      /\ (\E i \in Indices : structured[i].seen) =>
                           FromText' = FromText
    BY <1>1
  <2>1. TextInv'
    BY <1>1, NextKeepsText
  <2>2. \A call, other \in FromText' : call.format = other.format
    <3>1. \A call \in FromText' : call.format = locked'
      BY <2>1 DEF TextInv, FromText, FromDeltas, TextCalls
    <3> QED
      BY <3>1
  <2>3. ASSUME \E i \in Indices : structured[i].seen
        PROVE  FromText' = FromText
    <3>1. PICK text, states, final :
            \/ UNCHANGED emitted
            \/ /\ Decode(text, states, final)
               /\ \A i \in Indices : structured[i].seen => states[i].seen
      <4>1. CASE Finish
        BY <4>1 DEF Finish
      <4>2. CASE Chunk \/ Repeat
        <5>1. PICK fed, deltas, last_ : Feed(fed, deltas, last_)
          BY <4>2 DEF Chunk, Repeat
        <5>2. \/ UNCHANGED emitted
              \/ Decode(fed, Merged(deltas), last_)
          BY <5>1, FeedFacts
        <5>3. \A i \in Indices : structured[i].seen => Merged(deltas)[i].seen
          BY <1>1, MergedFacts
        <5> QED
          BY <5>2, <5>3
      <4> QED
        BY <4>1, <4>2 DEF Next
    <3>2. CASE UNCHANGED emitted
      BY <3>2 DEF FromText, FromDeltas
    <3>3. CASE \E i \in Indices : states[i].seen /\ Decode(text, states, final)
      <4>1. emitted' = emitted \cup StructuredCalls(states, final)
        BY <3>3 DEF Decode
      <4>2. \A call \in StructuredCalls(states, final) : call.format = "structured"
        BY DEF StructuredCalls, StructuredCall
      <4> QED
        BY <4>1, <4>2 DEF FromText, FromDeltas
    <3> QED
      BY <2>3, <3>1, <3>2, <3>3
  <2> QED
    BY <2>2, <2>3
<1> QED
  BY <1>1, TextIsRead, PTL DEF Spec, OneBranch

-----------------------------------------------------------------------------
(***************************************************************************)
(* Structured deltas                                                       *)
(***************************************************************************)
LEMMA SentIsPart ==
  ASSUME Typed, NEW i \in Indices
  PROVE  /\ Arguments[i] \in Seq(Range(Arguments[i]))
         /\ Len(Arguments[i]) \in Nat
         /\ sent[i] \in 0..Len(Arguments[i])
         /\ SentOf(i) = <<>> => sent[i] = 0
         /\ sent[i] = 0 => SentOf(i) = <<>>
<1>1. /\ Arguments[i] \in Seq(Range(Arguments[i]))
      /\ Len(Arguments[i]) \in Nat
  BY AssumedFacts
<1>2. sent[i] \in 0..Len(Arguments[i])
  BY <1>1 DEF Typed
<1>3. PICK start : start = SubSeq(Arguments[i], 1, sent[i])
  OBVIOUS
<1>4. /\ start = <<>> => sent[i] = 0
      /\ sent[i] = 0 => start = <<>>
  BY ONLY <1>1, <1>2, <1>3, StartFacts
<1> QED
  BY <1>1, <1>2, <1>3, <1>4 DEF SentOf

LEMMA KnownArguments ==
  ASSUME Typed, NEW i \in Indices, Known(i)
  PROVE  structured[i].arguments = SubSeq(Arguments[i], 1, sent[i])
<1>1. CASE structured[i].seen
  BY <1>1 DEF Known, SentOf
<1>2. CASE ~structured[i].seen
  <2>1. structured[i].arguments = <<>> /\ sent[i] = 0
    BY <1>2 DEF Known, Absent
  <2> QED
    BY <2>1, SentIsPart DEF SentOf
<1> QED
  BY <1>1, <1>2

\* What the provider sends next of a call leaves the decoder with what was sent.
LEMMA DeltaIsMerged ==
  ASSUME Unambiguous, Typed, NEW i \in Indices, Known(i),
         NEW n \in sent[i]..Len(Arguments[i]),
         NEW fragment, fragment = Fragment(i, n)
  PROVE  /\ MergeFragment(structured[i].arguments, fragment)
              = SubSeq(Arguments[i], 1, n)
         /\ \E m \in 0..n : fragment = SubSeq(Arguments[i], m + 1, n)
<1>1. /\ Arguments[i] \in Seq(Range(Arguments[i]))
      /\ n \in 0..Len(Arguments[i]) /\ sent[i] \in 0..n /\ 0 \in 0..n /\ 0 + 1 = 1
  BY SentIsPart
<1>2. structured[i].arguments = SubSeq(Arguments[i], 1, sent[i])
  BY KnownArguments
<1>3. CASE style = "all"
  <2>1. fragment = SubSeq(Arguments[i], 1, n)
    BY <1>3 DEF Fragment
  <2>2. MergeFragment(SubSeq(Arguments[i], 1, sent[i]), SubSeq(Arguments[i], 1, n))
          = SubSeq(Arguments[i], 1, n)
    BY <1>1, AllIsMerged
  <2> QED
    BY <1>1, <1>2, <2>1, <2>2
<1>4. CASE style # "all"
  <2>1. fragment = SubSeq(Arguments[i], sent[i] + 1, n)
    BY <1>4 DEF Fragment
  <2>2. ~Doubled(Arguments[i])
    BY <1>4, AssumedFacts DEF Typed, Unambiguous
  <2>3. MergeFragment(SubSeq(Arguments[i], 1, sent[i]),
                      SubSeq(Arguments[i], sent[i] + 1, n))
          = SubSeq(Arguments[i], 1, n)
    BY <1>1, <2>2, NewIsMerged
  <2> QED
    BY <1>1, <1>2, <2>1, <2>3
<1> QED
  BY <1>3, <1>4

LEMMA ChunkIsKnown ==
  ASSUME Unambiguous, ~LateIds, Typed, NEW i \in Indices, Known(i),
         NEW more \in Continuations(i),
         structured'[i] = ApplyDelta(structured[i], more.delta),
         sent'[i] = more.sent, last'[i] = more.delta.arguments
  PROVE  Known(i)'
<1>1. /\ more.sent \in sent[i]..Len(Arguments[i])
      /\ more.delta.id \in Ids(i)
      /\ more.delta.name \in Names(i)
      /\ more.delta.arguments = Fragment(i, more.sent)
  BY ContinuationFacts
<1>2. PICK n \in sent[i]..Len(Arguments[i]) : n = more.sent
  BY <1>1
<1>3. PICK fragment : fragment = more.delta.arguments
  OBVIOUS
<1>4. /\ MergeFragment(structured[i].arguments, fragment)
           = SubSeq(Arguments[i], 1, n)
      /\ \E m \in 0..n : fragment = SubSeq(Arguments[i], m + 1, n)
  BY <1>1, <1>2, <1>3, DeltaIsMerged
<1>5. /\ structured'[i].seen
      /\ structured'[i].arguments = SubSeq(Arguments[i], 1, n)
  BY <1>3, <1>4 DEF ApplyDelta
<1>6. structured'[i].id = TRUE
  <2>1. structured'[i].id = (structured[i].id \/ more.delta.id)
    BY DEF ApplyDelta
  <2>2. CASE structured[i].seen
    BY <2>1, <2>2 DEF Known
  <2>3. CASE ~structured[i].seen
    <3>1. more.delta.id = TRUE
      BY <1>1, <2>3, ReplyAssumption DEF Ids
    <3> QED
      BY <2>1, <3>1
  <2> QED
    BY <2>2, <2>3
<1>7. structured'[i].name = Name
  <2>1. structured'[i].name =
          IF more.delta.name = NoName THEN structured[i].name ELSE more.delta.name
    BY DEF ApplyDelta
  <2>2. CASE structured[i].seen
    BY <1>1, <2>1, <2>2 DEF Names, Known
  <2>3. CASE ~structured[i].seen
    BY <1>1, <2>1, <2>3, AssumedFacts DEF Names
  <2> QED
    BY <2>2, <2>3
<1>8. Latest(i)' /\ structured'[i].arguments = SentOf(i)'
  BY <1>2, <1>3, <1>4, <1>5 DEF Latest, SentOf
<1> QED
  BY <1>5, <1>6, <1>7, <1>8 DEF Known

LEMMA RepetitionIsKnown ==
  ASSUME Typed, NEW i \in Indices, Known(i), structured[i].seen,
         structured'[i] = ApplyDelta(structured[i], Resent(i)),
         sent'[i] = sent[i], last'[i] = last[i]
  PROVE  Known(i)'
<1>1. /\ structured[i].id = TRUE
      /\ structured[i].name = Name
      /\ structured[i].arguments = SubSeq(Arguments[i], 1, sent[i])
      /\ Latest(i)
  BY DEF Known, SentOf
<1>2. PICK m \in 0..sent[i] : last[i] = SubSeq(Arguments[i], m + 1, sent[i])
  BY <1>1 DEF Latest
<1>3. MergeFragment(SubSeq(Arguments[i], 1, sent[i]),
                    SubSeq(Arguments[i], m + 1, sent[i]))
        = SubSeq(Arguments[i], 1, sent[i])
  BY SentIsPart, RepetitionIsMerged
<1>4. /\ structured'[i].seen
      /\ structured'[i].arguments = SubSeq(Arguments[i], 1, sent[i])
      /\ structured'[i].name = Name
  BY <1>1, <1>2, <1>3 DEF ApplyDelta, Resent
<1>5. structured'[i].id = TRUE
  <2>1. structured'[i].id = (structured[i].id \/ structured[i].id)
    BY DEF ApplyDelta, Resent
  <2> QED
    BY <1>1, <2>1
<1>6. Latest(i)'
  BY <1>1 DEF Latest
<1> QED
  BY <1>4, <1>5, <1>6 DEF Known, SentOf

\* What a chunk does, for the call at each index.
LEMMA ChunkFacts ==
  ASSUME Chunk
  PROVE  \E I \in SUBSET Indices : \E more, deltas, text :
    /\ \A i \in I : more[i] \in Continuations(i)
    /\ DOMAIN deltas = I
    /\ \A i \in I : deltas[i] = more[i].delta
    /\ Feed(text, deltas, ended')
    /\ sent' = [i \in Indices |-> IF i \in I THEN more[i].sent ELSE sent[i]]
    /\ last' = [i \in Indices |->
                  IF i \in I THEN more[i].delta.arguments ELSE last[i]]
<1>1. PICK n \in heard..Len(Text), I \in SUBSET Indices :
      \E more \in [I -> UNION {Continuations(i) : i \in I}] :
       /\ \A i \in I : more[i] \in Continuations(i)
       /\ Feed(buffer \o SubSeq(Text, heard + 1, n),
               [i \in I |-> more[i].delta], ended')
       /\ sent' = [i \in Indices |-> IF i \in I THEN more[i].sent ELSE sent[i]]
       /\ last' = [i \in Indices |->
                     IF i \in I THEN more[i].delta.arguments ELSE last[i]]
  BY ZenonT(60) DEF Chunk
<1>2. PICK more \in [I -> UNION {Continuations(i) : i \in I}] :
       /\ \A i \in I : more[i] \in Continuations(i)
       /\ Feed(buffer \o SubSeq(Text, heard + 1, n),
               [i \in I |-> more[i].delta], ended')
       /\ sent' = [i \in Indices |-> IF i \in I THEN more[i].sent ELSE sent[i]]
       /\ last' = [i \in Indices |->
                     IF i \in I THEN more[i].delta.arguments ELSE last[i]]
  BY <1>1
<1>3. PICK deltas : deltas = [i \in I |-> more[i].delta]
  OBVIOUS
<1>4. PICK text : text = buffer \o SubSeq(Text, heard + 1, n)
  OBVIOUS
<1>5. DOMAIN deltas = I /\ \A i \in I : deltas[i] = more[i].delta
  BY <1>3
<1>6. Feed(text, deltas, ended')
  BY <1>2, <1>3, <1>4
<1> QED
  BY <1>2, <1>5, <1>6

LEMMA ChunkKeepsDeltas ==
  ASSUME Unambiguous, ~LateIds, Typed, DeltaInv, Chunk
  PROVE  DeltaInv'
<1>1. PICK I \in SUBSET Indices : \E more, deltas, text :
      /\ \A i \in I : more[i] \in Continuations(i)
      /\ DOMAIN deltas = I
      /\ \A i \in I : deltas[i] = more[i].delta
      /\ Feed(text, deltas, ended')
      /\ sent' = [i \in Indices |-> IF i \in I THEN more[i].sent ELSE sent[i]]
      /\ last' = [i \in Indices |->
                    IF i \in I THEN more[i].delta.arguments ELSE last[i]]
  BY ChunkFacts
<1>2. PICK more, deltas, text :
      /\ \A i \in I : more[i] \in Continuations(i)
      /\ DOMAIN deltas = I
      /\ \A i \in I : deltas[i] = more[i].delta
      /\ Feed(text, deltas, ended')
      /\ sent' = [i \in Indices |-> IF i \in I THEN more[i].sent ELSE sent[i]]
      /\ last' = [i \in Indices |->
                    IF i \in I THEN more[i].delta.arguments ELSE last[i]]
  BY <1>1
<1>3. /\ status = "open"
      /\ status' = "failed" \/ structured' = Merged(deltas)
  BY <1>2, FeedFacts
<1>4. ASSUME structured' = Merged(deltas), NEW i \in Indices
      PROVE  Known(i)'
  <2>1. Known(i)
    BY <1>3 DEF DeltaInv
  <2>2. CASE i \in I
    <3>1. /\ more[i] \in Continuations(i)
          /\ structured'[i] = ApplyDelta(structured[i], more[i].delta)
          /\ sent'[i] = more[i].sent /\ last'[i] = more[i].delta.arguments
      BY <1>2, <1>4, <2>2 DEF Merged
    <3> QED
      BY <2>1, <3>1, ChunkIsKnown
  <2>3. CASE i \notin I
    <3>1. /\ structured'[i] = structured[i]
          /\ sent'[i] = sent[i] /\ last'[i] = last[i]
      BY <1>2, <1>4, <2>3 DEF Merged
    <3> QED
      BY <2>1, <3>1 DEF Known, SentOf, Latest
  <2> QED
    BY <2>2, <2>3
<1> QED
  BY <1>3, <1>4 DEF DeltaInv

LEMMA RepeatKeepsDeltas ==
  ASSUME Typed, DeltaInv, Repeat
  PROVE  DeltaInv'
<1>1. PICK k \in Indices : /\ structured[k].seen
                           /\ Feed(buffer, [j \in {k} |-> Resent(j)], FALSE)
  BY DEF Repeat
<1>2. PICK deltas : deltas = [j \in {k} |-> Resent(j)]
  OBVIOUS
<1>3. /\ status = "open"
      /\ status' = "failed" \/ structured' = Merged(deltas)
  BY <1>1, <1>2, FeedFacts
<1>4. sent' = sent /\ last' = last
  BY DEF Repeat, provider
<1>5. ASSUME structured' = Merged(deltas), NEW i \in Indices
      PROVE  Known(i)'
  <2>1. Known(i)
    BY <1>3 DEF DeltaInv
  <2>2. CASE i = k
    <3>1. structured'[i] = ApplyDelta(structured[i], Resent(i))
      BY <1>2, <1>5, <2>2 DEF Merged
    <3> QED
      BY <1>1, <1>4, <2>1, <2>2, <3>1, RepetitionIsKnown
  <2>3. CASE i # k
    <3>1. structured'[i] = structured[i]
      BY <1>2, <1>5, <2>3 DEF Merged
    <3> QED
      BY <1>4, <2>1, <3>1 DEF Known, SentOf, Latest
  <2> QED
    BY <2>2, <2>3
<1> QED
  BY <1>3, <1>5 DEF DeltaInv

LEMMA FinishKeepsDeltas ==
  ASSUME DeltaInv, Finish
  PROVE  DeltaInv'
<1>1. status = "open" /\ UNCHANGED <<provider, structured>>
  BY DEF Finish
<1> QED
  BY <1>1 DEF DeltaInv, Known, SentOf, Latest, provider

LEMMA InitDeltas == Init => DeltaInv
<1> SUFFICES ASSUME Init, NEW i \in Indices PROVE Known(i)
  BY DEF DeltaInv
<1> QED
  BY DEF Init, Known, Absent

-----------------------------------------------------------------------------
(***************************************************************************)
(* Nothing is missed                                                       *)
(***************************************************************************)
LEMMA FinishMissesNothing ==
  ASSUME Typed, TextInv, DeltaInv, Finish
  PROVE  NothingIsMissed'
<1>1. /\ status = "open"
      /\ Decode(buffer, structured, TRUE)
      /\ UNCHANGED <<provider, buffer, structured>>
  BY DEF Finish
<1>2. ASSUME NEW i \in Indices, structured'[i].seen,
             SentOf(i)' \in Documents \cup Scalars
      PROVE  \E call \in FromDeltas' : call.index = i /\ call.id
  <2>1. structured[i].seen /\ SentOf(i) \in Documents \cup Scalars
    BY <1>1, <1>2 DEF provider, SentOf
  <2>2. /\ structured[i].id = TRUE
        /\ structured[i].name # NoName
        /\ structured[i].arguments \in Documents \cup Scalars
    BY <1>1, <2>1, AssumedFacts DEF DeltaInv, Known
  <2>3. PICK call : call = StructuredCall(i, structured[i], structured[i].arguments)
    OBVIOUS
  <2>4. call \in StructuredCalls(structured, TRUE)
    BY <2>2, <2>3 DEF StructuredCalls
  <2>5. call \in emitted'
    BY <1>1, <2>1, <2>4 DEF Decode
  <2>6. call.format = "structured" /\ call.index = i /\ call.id = TRUE
    BY <2>2, <2>3 DEF StructuredCall
  <2> QED
    BY <2>5, <2>6 DEF FromDeltas
<1>3. ASSUME \A i \in Indices : ~structured'[i].seen
      PROVE  \/ /\ locked' # NoParser
                /\ emitted' = TextCalls(locked', buffer')
             \/ \A parser \in Range(Parsers) : ~Finds(parser, buffer')
  <2>1. ~\E i \in Indices : structured[i].seen
    BY <1>1, <1>3
  <2>2. /\ locked' = Branch(buffer)
        /\ emitted' = emitted \cup
             (IF Branch(buffer) = NoParser THEN {}
                                           ELSE TextCalls(Branch(buffer), buffer))
    BY <1>1, <2>1 DEF Decode
  <2>3. CASE Branch(buffer) = NoParser
    BY <1>1, <2>3, BranchFacts
  <2>4. CASE Branch(buffer) # NoParser
    <3>1. emitted' \subseteq TextCalls(locked', buffer')
      BY <1>3, FinishKeepsText DEF TextInv
    <3>2. TextCalls(locked', buffer') \subseteq emitted'
      BY <1>1, <2>2, <2>4
    <3> QED
      BY <2>2, <2>4, <3>1, <3>2
  <2> QED
    BY <2>3, <2>4
<1> QED
  BY <1>2, <1>3 DEF NothingIsMissed

\* Nothing is read after the end.
LEMMA ReadingStops ==
  ASSUME Chunk \/ Repeat
  PROVE  status = "open" /\ status' # "finished"
<1>1. PICK text, deltas, final : Feed(text, deltas, final)
  BY DEF Chunk, Repeat
<1> QED
  BY <1>1, FeedFacts

Reading == Typed /\ TextInv /\ DeltaInv /\ NothingIsMissed

LEMMA InitReading == Init => Reading
<1>1. Init => NothingIsMissed
  BY DEF Init, NothingIsMissed
<1> QED
  BY <1>1, InitText, InitDeltas DEF Reading

LEMMA NextKeepsReading ==
  ASSUME Unambiguous, ~LateIds, Reading, [Next]_vars
  PROVE  Reading'
<1>1. Typed' /\ TextInv'
  BY NextKeepsText DEF Reading
<1>2. DeltaInv' /\ NothingIsMissed'
  <2>1. CASE Chunk
    BY <2>1, ChunkKeepsDeltas, ReadingStops DEF Reading, NothingIsMissed
  <2>2. CASE Repeat
    BY <2>2, RepeatKeepsDeltas, ReadingStops DEF Reading, NothingIsMissed
  <2>3. CASE Finish
    BY <2>3, FinishKeepsDeltas, FinishMissesNothing DEF Reading
  <2>4. CASE UNCHANGED vars
    <3>1. DeltaInv'
      BY <2>4 DEF vars, provider, Reading, DeltaInv, Known, SentOf, Latest
    <3>2. NothingIsMissed'
      BY <2>4 DEF vars, provider, Reading, NothingIsMissed, SentOf, FromDeltas
    <3> QED
      BY <3>1, <3>2
  <2> QED
    BY <2>1, <2>2, <2>3, <2>4 DEF Next
<1> QED
  BY <1>1, <1>2 DEF Reading

\* When the stream is over, every call that came whole was handed out, from the
\* deltas or by the branch the text was read by (feed, finish): however the
\* reply was cut, if no piece that is sent can be taken for one sent again.
THEOREM EndMissesNothing ==
  ASSUME Unambiguous, ~LateIds
  PROVE  Spec => []NothingIsMissed
<1>1. Reading /\ [Next]_vars => Reading'
  BY NextKeepsReading
<1>2. Reading => NothingIsMissed
  BY DEF Reading
<1> QED
  BY <1>1, <1>2, InitReading, PTL DEF Spec

-----------------------------------------------------------------------------
(***************************************************************************)
(* Calls are handed out whole, and once                                    *)
(***************************************************************************)
LEMMA ReadCallsAreHanded ==
  ASSUME Closed, Typed', NEW i \in Indices, Known(i)', NEW final,
         final => ended' \/ status' = "finished",
         NEW call,
         structured'[i].name # NoName,
         \/ /\ call = StructuredCall(i, structured'[i], structured'[i].arguments)
            /\ \/ structured'[i].arguments \in Documents
               \/ final /\ structured'[i].arguments \in Scalars
         \/ /\ call = StructuredCall(i, structured'[i], EmptyObject)
            /\ structured'[i].arguments = <<>> /\ final
  PROVE  call = Handed(i)' /\ Settled(i)'
<1>1. /\ structured'[i].id = TRUE
      /\ structured'[i].arguments = SentOf(i)'
  BY DEF Known, Absent
<1>2. /\ Len(Arguments[i]) \in Nat
      /\ sent'[i] \in 0..Len(Arguments[i])
      /\ SentOf(i)' = <<>> => sent'[i] = 0
      /\ sent'[i] = 0 => SentOf(i)' = <<>>
  <2>1. /\ Arguments[i] \in Seq(Range(Arguments[i]))
        /\ Len(Arguments[i]) \in Nat
    BY AssumedFacts
  <2>2. PICK n \in 0..Len(Arguments[i]) : n = sent'[i]
    BY <2>1 DEF Typed
  <2>3. PICK start : start = SubSeq(Arguments[i], 1, n)
    OBVIOUS
  <2>4. /\ start = <<>> => n = 0
        /\ n = 0 => start = <<>>
    BY ONLY <2>1, <2>3, StartFacts
  <2> QED
    BY <2>1, <2>2, <2>3, <2>4 DEF SentOf
<1>3. CASE structured'[i].arguments = <<>>
  BY <1>1, <1>2, <1>3, AssumedFacts DEF Handed, Settled, StructuredCall
<1>4. CASE structured'[i].arguments # <<>>
  <2>1. /\ call = StructuredCall(i, structured'[i], structured'[i].arguments)
        /\ \/ structured'[i].arguments \in Documents
           \/ final /\ structured'[i].arguments \in Scalars
    BY <1>4
  <2>2. call = Handed(i)'
    BY <1>1, <1>2, <1>4, <2>1 DEF Handed, StructuredCall
  <2>3. ASSUME structured'[i].arguments \in Documents
        PROVE  sent'[i] = Len(Arguments[i])
    <3> SUFFICES ASSUME sent'[i] # Len(Arguments[i]) PROVE FALSE
      OBVIOUS
    <3>1. sent'[i] \in 0..(Len(Arguments[i]) - 1)
      BY <1>2
    <3>2. SubSeq(Arguments[i], 1, sent'[i]) \notin Documents
      BY <3>1 DEF Closed
    <3> QED
      BY <1>1, <2>3, <3>2 DEF SentOf
  <2> QED
    BY <2>1, <2>2, <2>3 DEF Settled
<1> QED
  BY <1>3, <1>4


\* A call that was handed out stays as it is.
LEMMA HandedStays ==
  ASSUME HandedInv, Typed, Typed',
         \A i \in Indices : sent[i] <= sent'[i],
         ended \/ status = "finished" =>
           sent' = sent /\ (ended' \/ status' = "finished"),
         NEW call \in FromDeltas
  PROVE  \E i \in Indices : call = Handed(i)' /\ Settled(i)'
<1>1. PICK i \in Indices : call = Handed(i) /\ Settled(i)
  BY DEF HandedInv
<1>2. sent'[i] = sent[i] /\ Settled(i)'
  <2>1. CASE ended \/ status = "finished"
    BY <2>1 DEF Settled
  <2>2. CASE sent[i] = Len(Arguments[i])
    <3>1. /\ sent[i] \in Nat /\ sent'[i] \in Nat /\ Len(Arguments[i]) \in Nat
          /\ sent[i] <= sent'[i] /\ sent'[i] <= Len(Arguments[i])
      BY AssumedFacts DEF Typed
    <3>2. sent'[i] = Len(Arguments[i])
      BY <2>2, <3>1
    <3> QED
      BY <2>2, <3>2 DEF Settled
  <2> QED
    BY <1>1, <2>1, <2>2 DEF Settled
<1>3. call = Handed(i)'
  BY <1>1, <1>2 DEF Handed, SentOf
<1> QED
  BY <1>2, <1>3

LEMMA DecodeKeepsHanded ==
  ASSUME Closed, HandedInv, Typed, Typed', DeltaInv', status' # "failed",
         \A i \in Indices : sent[i] <= sent'[i],
         ended \/ status = "finished" =>
           sent' = sent /\ (ended' \/ status' = "finished"),
         NEW text, NEW states, states = structured',
         NEW final, final => ended' \/ status' = "finished",
         Decode(text, states, final)
  PROVE  HandedInv'
<1>1. ASSUME NEW call \in FromDeltas', call \notin FromDeltas
      PROVE  \E i \in Indices : call = Handed(i)' /\ Settled(i)'
  <2>1. call \in emitted' /\ call.format = "structured" /\ call \notin emitted
    BY <1>1 DEF FromDeltas
  <2>2. CASE \E i \in Indices : states[i].seen
    <3>1. call \in StructuredCalls(states, final)
      BY <2>1, <2>2 DEF Decode
    <3>2. PICK i \in Indices :
            /\ states[i].name # NoName
            /\ \/ /\ call = StructuredCall(i, states[i], states[i].arguments)
                  /\ \/ states[i].arguments \in Documents
                     \/ final /\ states[i].arguments \in Scalars
               \/ /\ call = StructuredCall(i, states[i], EmptyObject)
                  /\ states[i].arguments = <<>> /\ final
      BY <3>1 DEF StructuredCalls
    <3>3. Known(i)'
      BY DEF DeltaInv
    <3> QED
      BY <3>2, <3>3, ReadCallsAreHanded
  <2>3. CASE ~\E i \in Indices : states[i].seen
    <3>1. /\ Branch(text) # NoParser
          /\ call \in TextCalls(Branch(text), text)
      BY <2>1, <2>3 DEF Decode
    <3>2. call.format = Branch(text)
      BY <3>1 DEF TextCalls
    <3> QED
      BY <2>1, <3>1, <3>2, BranchFacts, AssumedFacts
  <2> QED
    BY <2>2, <2>3
<1> QED
  BY <1>1, HandedStays DEF HandedInv

LEMMA FeedKeepsHanded ==
  ASSUME Closed, HandedInv, Typed, Typed', DeltaInv', ~ended,
         \A i \in Indices : sent[i] <= sent'[i],
         NEW text, NEW deltas, NEW final, final => ended',
         Feed(text, deltas, final)
  PROVE  HandedInv'
<1>1. /\ status = "open"
      /\ \/ /\ status' = "failed"
            /\ UNCHANGED <<structured, locked, emitted>>
         \/ /\ status' = "open"
            /\ structured' = Merged(deltas)
            /\ Decode(text, Merged(deltas), final)
  BY FeedFacts
<1>2. CASE UNCHANGED emitted
  <2>1. FromDeltas' = FromDeltas
    BY <1>2 DEF FromDeltas
  <2> QED
    BY <1>1, <2>1, HandedStays DEF HandedInv
<1>3. CASE /\ status' = "open"
           /\ structured' = Merged(deltas)
           /\ Decode(text, Merged(deltas), final)
  <2>1. PICK states : states = Merged(deltas)
    OBVIOUS
  <2> QED
    BY <1>1, <1>3, <2>1, DecodeKeepsHanded
<1> QED
  BY <1>1, <1>2, <1>3

LEMMA ChunkKeepsHanded ==
  ASSUME Closed, HandedInv, Typed, Typed', DeltaInv', Chunk
  PROVE  HandedInv'
<1>1. PICK I \in SUBSET Indices : \E more, deltas, text :
      /\ \A i \in I : more[i] \in Continuations(i)
      /\ Feed(text, deltas, ended')
      /\ sent' = [i \in Indices |-> IF i \in I THEN more[i].sent ELSE sent[i]]
  BY ChunkFacts
<1>2. PICK more, deltas, text :
      /\ \A i \in I : more[i] \in Continuations(i)
      /\ Feed(text, deltas, ended')
      /\ sent' = [i \in Indices |-> IF i \in I THEN more[i].sent ELSE sent[i]]
  BY <1>1
<1>3. ASSUME NEW i \in Indices
      PROVE  sent[i] <= sent'[i]
  <2>1. sent[i] \in Nat /\ Len(Arguments[i]) \in Nat
    BY AssumedFacts DEF Typed
  <2>2. CASE i \in I
    <3>1. sent'[i] \in sent[i]..Len(Arguments[i])
      BY <1>2, <2>2, ContinuationFacts
    <3> QED
      BY <2>1, <3>1
  <2>3. CASE i \notin I
    BY <1>2, <2>1, <2>3
  <2> QED
    BY <2>2, <2>3
<1>4. ~ended
  BY DEF Chunk
<1> QED
  BY <1>2, <1>3, <1>4, FeedKeepsHanded

LEMMA RepeatKeepsHanded ==
  ASSUME Closed, HandedInv, Typed, Typed', DeltaInv', Repeat
  PROVE  HandedInv'
<1>1. PICK i \in Indices : Feed(buffer, [j \in {i} |-> Resent(j)], FALSE)
  BY DEF Repeat
<1>2. PICK deltas : deltas = [j \in {i} |-> Resent(j)]
  OBVIOUS
<1>3. ~ended /\ sent' = sent
  BY DEF Repeat, provider
<1>4. \A k \in Indices : sent[k] <= sent'[k]
  BY <1>3 DEF Typed
<1> QED
  BY <1>1, <1>2, <1>3, <1>4, FeedKeepsHanded

LEMMA FinishKeepsHanded ==
  ASSUME Closed, HandedInv, Typed, Typed', DeltaInv', Finish
  PROVE  HandedInv'
<1>1. /\ status' = "finished"
      /\ Decode(buffer, structured, TRUE)
      /\ structured' = structured /\ sent' = sent
  BY DEF Finish, provider
<1>2. \A k \in Indices : sent[k] <= sent'[k]
  BY <1>1 DEF Typed
<1> QED
  BY <1>1, <1>2, DecodeKeepsHanded

LEMMA HandedIsWhole == Typed /\ HandedInv => CallsAreWhole
<1> SUFFICES ASSUME Typed, HandedInv PROVE CallsAreWhole
  OBVIOUS
<1>1. \A call \in FromDeltas : call.index \in Indices /\ call = Handed(call.index)
  BY DEF HandedInv, Handed
<1>2. \A call, other \in FromDeltas : call.index = other.index => call = other
  BY <1>1
<1>3. ASSUME NEW call \in FromDeltas
      PROVE  \/ call.arguments = SentOf(call.index)
             \/ call.arguments = EmptyObject /\ sent[call.index] = 0
  <2>1. PICK i \in Indices : call = Handed(i)
    BY DEF HandedInv
  <2> QED
    BY <2>1 DEF Handed
<1> QED
  BY <1>2, <1>3 DEF CallsAreWhole

\* A structured call is handed out once, and with all that is sent of its
\* arguments (_structured_calls waits for a document, or the end): however the
\* reply is cut, if no document goes on and no piece that is sent can be taken
\* for one sent again.
THEOREM CallsComeWhole ==
  ASSUME Unambiguous, Closed, ~LateIds
  PROVE  Spec => []CallsAreWhole
<1>1. Init => HandedInv
  BY DEF Init, HandedInv, FromDeltas
<1>2. Reading /\ HandedInv /\ [Next]_vars => (Reading /\ HandedInv)'
  <2> SUFFICES ASSUME Reading, HandedInv, [Next]_vars
               PROVE  (Reading /\ HandedInv)'
    OBVIOUS
  <2>1. Reading' /\ Typed' /\ DeltaInv' /\ Typed
    BY NextKeepsReading DEF Reading
  <2>2. CASE UNCHANGED vars
    BY <2>1, <2>2
      DEF vars, provider, HandedInv, FromDeltas, Handed, Settled, SentOf
  <2> QED
    BY <2>1, <2>2, ChunkKeepsHanded, RepeatKeepsHanded, FinishKeepsHanded DEF Next
<1>3. Reading /\ HandedInv => CallsAreWhole
  BY HandedIsWhole DEF Reading
<1> QED
  BY <1>1, <1>2, <1>3, InitReading, PTL DEF Spec
=============================================================================
