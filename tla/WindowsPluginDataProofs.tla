----------------------- MODULE WindowsPluginDataProofs -----------------------
(* The parser of the TPM version, for platform types of every length, and the *)
(* way of an HRESULT to the exception that the application sees.              *)
EXTENDS WindowsPluginData, WellFoundedInduction, TLAPS

-----------------------------------------------------------------------------
(* Extremes of sets of numbers *)

\* A set of numbers has a least element.
LEMMA LeastNumber ==
    ASSUME NEW S \in SUBSET Nat, S # {}
    PROVE  \E m \in S : \A n \in S : m <= n
<1> DEFINE R == OpToRel(<, Nat)
<1>1. IsWellFoundedOn(R, Nat)
  BY NatLessThanWellFounded
<1>2. \A x, y \in Nat : x < y => <<x, y>> \in R
  BY DEF OpToRel
<1> HIDE DEF R
<1>3. PICK x \in S : \A y \in S : ~ (<<y, x>> \in R)
  BY <1>1, WFMin
<1>4. ASSUME NEW y \in S PROVE x <= y
  <2>1. x \in Nat /\ y \in Nat /\ ~(y < x)
    BY <1>2, <1>3
  <2>2. QED
    BY <2>1
<1>5. QED
  BY <1>4

\* A set of numbers up to a bound has a greatest.
LEMMA GreatestNumber ==
    ASSUME NEW b \in Nat, NEW S \in SUBSET (0..b), S # {}
    PROVE  \E m \in S : \A n \in S : n <= m
<1> DEFINE T == {b - n : n \in S}
<1>1. \A n \in S : n \in Nat /\ n <= b /\ b - n \in Nat
  OBVIOUS
<1>2. T \in SUBSET Nat
  BY <1>1
<1>3. T # {}
  <2>1. PICK n : n \in S
    OBVIOUS
  <2>2. b - n \in T
    BY <2>1
  <2>3. QED
    BY <2>2
<1>4. PICK t \in T : \A u \in T : t <= u
  BY <1>2, <1>3, LeastNumber
<1>5. PICK m \in S : t = b - m
  BY <1>4
<1>6. ASSUME NEW n \in S PROVE n <= m
  <2>1. b - n \in T
    OBVIOUS
  <2>2. b - m <= b - n
    BY <1>4, <1>5, <2>1
  <2>3. QED
    BY <1>1, <2>2
<1>7. QED
  BY <1>6

\* What Leftmost chooses.
LEMMA LeftmostIs ==
    ASSUME NEW S \in SUBSET Nat, S # {}
    PROVE  Leftmost(S) \in S /\ \A n \in S : Leftmost(S) <= n
BY LeastNumber DEF Leftmost

-----------------------------------------------------------------------------
(* The version of the TPM *)

\* The text between the key and the next point: where it starts, how long it is,
\* and that its first point, if there is one, comes right behind it.
LEMMA TypeText ==
    ASSUME NEW type \in Seq(Piece), Places(type, "key", 1) # {}
    PROVE  \E k \in 1..Len(type) : \E e \in k..Len(type) :
              /\ type[k] = "key" /\ \A i \in 1..(k - 1) : type[i] # "key"
              /\ ParsePlatformType(type) \in Seq(Piece)
              /\ Len(ParsePlatformType(type)) = e - k
              /\ \A i \in 1..(e - k) : ParsePlatformType(type)[i] = type[k + i]
              /\ e < Len(type) => type[e + 1] = "point"
<1> DEFINE keys == Places(type, "key", 1)
           k == Leftmost(keys)
           points == Places(type, "point", k + 1)
           e == IF points = {} THEN Len(type) ELSE Leftmost(points) - 1
<1>1. Len(type) \in Nat
  OBVIOUS
<1>2. keys = {i \in 1..Len(type) : type[i] = "key"}
  BY DEF Places
<1>3. k \in keys /\ \A i \in keys : k <= i
  BY <1>1, <1>2, LeftmostIs
<1> HIDE DEF keys, k
<1>4. k \in 1..Len(type) /\ type[k] = "key" /\ \A i \in 1..(k - 1) : type[i] # "key"
  BY <1>1, <1>2, <1>3
<1>5. points = {i \in (k + 1)..Len(type) : type[i] = "point"}
  BY DEF Places
<1>6. points # {} => Leftmost(points) \in points
  BY <1>1, <1>4, <1>5, LeftmostIs
<1>7. e \in k..Len(type) /\ (e < Len(type) => type[e + 1] = "point")
  BY <1>1, <1>4, <1>5, <1>6
<1>8. ParsePlatformType(type) = SubSeq(type, k + 1, e)
  BY DEF ParsePlatformType, keys, k
<1> HIDE DEF points, e
<1>9. /\ SubSeq(type, k + 1, e) \in Seq(Piece)
      /\ Len(SubSeq(type, k + 1, e)) = e - k
      /\ \A i \in 1..(e - k) : SubSeq(type, k + 1, e)[i] = type[k + i]
  BY <1>1, <1>4, <1>7
<1>10. QED
  BY <1>4, <1>7, <1>8, <1>9

\* What std::stoi looks at: the first piece that is not blank and all behind it.
LEMMA UnpaddedText ==
    ASSUME NEW text \in Seq(Piece)
    PROVE  \E p \in 0..Len(text) :
              /\ \A i \in 1..p : text[i] = "blank"
              /\ p < Len(text) => text[p + 1] # "blank"
              /\ Unpadded(text) # <<>> <=> p < Len(text)
              /\ p < Len(text) => Unpadded(text)[1] = text[p + 1]
<1> DEFINE padding == {n \in 0..Len(text) : \A i \in 1..n : text[i] = "blank"}
           p == CHOOSE n \in padding : \A m \in padding : m <= n
<1>1. Len(text) \in Nat
  OBVIOUS
<1>2. 0 \in padding /\ padding \in SUBSET (0..Len(text))
  BY <1>1
<1>3. p \in padding /\ \A m \in padding : m <= p
  BY <1>1, <1>2, GreatestNumber
<1>4. Unpadded(text) = SubSeq(text, p + 1, Len(text))
  BY DEF Unpadded
<1> HIDE DEF p
<1>5. p \in 0..Len(text) /\ \A i \in 1..p : text[i] = "blank"
  BY <1>3
<1>6. p < Len(text) => text[p + 1] # "blank"
  <2> SUFFICES ASSUME p < Len(text), text[p + 1] = "blank" PROVE FALSE
    OBVIOUS
  <2>1. p + 1 \in padding
    BY <1>1, <1>5
  <2>2. QED
    BY <1>3, <1>5, <2>1
<1> HIDE DEF padding
<1>7. ASSUME p < Len(text)
      PROVE  /\ SubSeq(text, p + 1, Len(text)) # <<>>
             /\ SubSeq(text, p + 1, Len(text))[1] = text[p + 1]
  <2>1. Len(SubSeq(text, p + 1, Len(text))) = Len(text) - p
    BY <1>1, <1>5, <1>7
  <2>2. 1 \in 1..(Len(text) - p)
    BY <1>1, <1>5, <1>7
  <2>3. SubSeq(text, p + 1, Len(text))[1] = text[p + 1]
    BY <1>1, <1>5, <1>7, <2>1, <2>2
  <2>4. Len(SubSeq(text, p + 1, Len(text))) # 0
    BY <1>1, <1>5, <1>7, <2>1
  <2>5. Len(<<>>) = 0
    OBVIOUS
  <2>6. SubSeq(text, p + 1, Len(text)) # <<>>
    BY <2>4, <2>5, Zenon
  <2>7. QED
    BY <2>3, <2>6
<1>8. ASSUME ~(p < Len(text)) PROVE SubSeq(text, p + 1, Len(text)) = <<>>
  <2>1. p = Len(text)
    BY <1>1, <1>5, <1>8
  <2>2. SubSeq(text, Len(text) + 1, Len(text)) = <<>>
    BY <1>1
  <2>3. QED
    BY <2>1, <2>2
<1>9. QED
  BY <1>4, <1>5, <1>6, <1>7, <1>8

\* The parser finds a numeral exactly where the type names it.
LEMMA ParserFinds ==
    ASSUME NEW type \in Seq(Piece), NEW numeral \in DOMAIN Numeral,
           Places(type, "key", 1) # {}
    PROVE  LET text == Unpadded(ParsePlatformType(type))
           IN  text # <<>> /\ text[1] = numeral <=> HasMajorVersion(type, numeral)
<1> DEFINE parsed == ParsePlatformType(type)
           text == Unpadded(parsed)
<1>1. PICK k \in 1..Len(type), e \in 1..Len(type) :
          /\ k <= e
          /\ type[k] = "key" /\ \A i \in 1..(k - 1) : type[i] # "key"
          /\ parsed \in Seq(Piece)
          /\ Len(parsed) = e - k
          /\ \A i \in 1..(e - k) : parsed[i] = type[k + i]
          /\ e < Len(type) => type[e + 1] = "point"
  BY TypeText
<1>2. PICK p \in 0..Len(parsed) :
          /\ \A i \in 1..p : parsed[i] = "blank"
          /\ p < Len(parsed) => parsed[p + 1] # "blank"
          /\ text # <<>> <=> p < Len(parsed)
          /\ p < Len(parsed) => text[1] = parsed[p + 1]
  BY <1>1, UnpaddedText
<1> HIDE DEF parsed, text
<1>3. Len(type) \in Nat /\ numeral \notin {"key", "point", "blank"}
  BY DEF Numeral
<1>4. ASSUME text # <<>>, text[1] = numeral PROVE HasMajorVersion(type, numeral)
  <2>1. k + p + 1 \in (k + 1)..Len(type) /\ type[k + p + 1] = numeral
    BY <1>1, <1>2, <1>3, <1>4
  <2>2. \A i \in (k + 1)..(k + p) : type[i] = "blank"
    <3> TAKE i \in (k + 1)..(k + p)
    <3>1. i - k \in 1..p /\ i - k \in 1..(e - k) /\ k + (i - k) = i
      BY <1>1, <1>2, <1>3
    <3>2. QED
      BY <1>1, <1>2, <3>1
  <2>3. QED
    BY <1>1, <1>3, <2>1, <2>2 DEF HasMajorVersion
<1>5. ASSUME HasMajorVersion(type, numeral) PROVE text # <<>> /\ text[1] = numeral
  <2>1. PICK j \in 1..Len(type) : \E n \in (j + 1)..Len(type) :
            /\ type[j] = "key" /\ \A i \in 1..(j - 1) : type[i] # "key"
            /\ \A i \in (j + 1)..(n - 1) : type[i] = "blank"
            /\ type[n] = numeral
    BY <1>5 DEF HasMajorVersion
  <2>2. j = k
    BY <1>1, <1>3, <2>1
  <2>3. PICK n \in (k + 1)..Len(type) :
            /\ \A i \in (k + 1)..(n - 1) : type[i] = "blank"
            /\ type[n] = numeral
    BY <2>1, <2>2
  <2>4. n <= e
    BY <1>1, <1>3, <2>3
  <2>5. n - k \in 1..(e - k) /\ parsed[n - k] = numeral
    BY <1>1, <1>3, <2>3, <2>4
  <2>6. p < n - k
    BY <1>1, <1>2, <1>3, <2>5
  <2>7. ~(p + 1 < n - k)
    <3> SUFFICES ASSUME p + 1 < n - k PROVE FALSE
      OBVIOUS
    <3>1. p + 1 \in 1..(e - k) /\ k + p + 1 \in (k + 1)..(n - 1)
      BY <1>1, <1>2, <1>3, <2>3, <2>5
    <3>2. parsed[p + 1] = type[k + (p + 1)]
      BY <1>1, <3>1
    <3>3. QED
      BY <1>1, <1>2, <2>3, <3>1, <3>2
  <2>8. p + 1 = n - k
    BY <1>2, <1>1, <2>3, <2>6, <2>7
  <2>9. QED
    BY <1>1, <1>2, <2>5, <2>8
<1>6. QED
  BY <1>4, <1>5 DEF text, parsed

\* GetTPMStatus says supported exactly when the platform names version 2, the
\* newest there is, and unsupported exactly without a provider.
THEOREM TpmStatusMeans ==
    ASSUME NEW types \in SUBSET Seq(Piece), NEW platform \in Platform(types)
    PROVE  /\ GetTPMStatus(platform) \in 0..2
           /\ GetTPMStatus(platform) = TpmStatus.kUnsupported <=> ~platform.provider
           /\ GetTPMStatus(platform) = TpmStatus.kSupported
                 <=> /\ platform.provider /\ platform.readable
                     /\ HasMajorVersion(platform.type, "two")
<1> DEFINE type == platform.type
           text == Unpadded(ParsePlatformType(type))
<1>1. type \in Seq(Piece) /\ platform.provider \in BOOLEAN /\ platform.readable \in BOOLEAN
  BY DEF Platform
<1>2. Len(type) \in Nat
  BY <1>1
<1>3. HasMajorVersion(type, "two") => Places(type, "key", 1) # {}
  BY <1>2 DEF HasMajorVersion, Places
<1>4. Places(type, "key", 1) # {}
         => (text # <<>> /\ text[1] = "two" <=> HasMajorVersion(type, "two"))
  <2>1. "two" \in DOMAIN Numeral
    BY DEF Numeral
  <2>2. QED
    BY <1>1, <2>1, ParserFinds
<1>5. VersionKnown(platform) <=> /\ platform.provider /\ platform.readable
                                 /\ Places(type, "key", 1) # {}
                                 /\ text # <<>> /\ text[1] \in DOMAIN Numeral
  BY DEF VersionKnown
<1>6. WindowsTpmVersion(platform) = Numeral[text[1]]
  BY DEF WindowsTpmVersion
<1>7. \A n \in DOMAIN Numeral : Numeral[n] \in 0..2 /\ (Numeral[n] >= 2 <=> n = "two")
  BY DEF Numeral
<1>8. "two" \in DOMAIN Numeral
  BY DEF Numeral
<1> HIDE DEF text, type
<1>9. VersionKnown(platform) /\ WindowsTpmVersion(platform) >= 2
         <=> platform.provider /\ platform.readable /\ HasMajorVersion(type, "two")
  BY <1>3, <1>4, <1>5, <1>6, <1>7, <1>8
<1>10. QED
  BY <1>1, <1>9 DEF GetTPMStatus, TpmStatus, type

=============================================================================
