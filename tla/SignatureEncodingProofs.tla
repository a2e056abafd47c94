------------------------ MODULE SignatureEncodingProofs ------------------------
(***************************************************************************)
(* Which signatures survive the way through DER, for every width of a      *)
(* magnitude and every size of a byte.                                     *)
(***************************************************************************)
EXTENDS SignatureEncoding, SequenceTheorems, TLAPS

\* o is the first byte of m that is not zero.
Leads(o, m) ==
    /\ o \in 1 .. Width
    /\ m[o] # 0
    /\ \A j \in 1 .. o - 1 : m[j] = 0

\* m has the full width, or a first byte with a clear high bit ...
Intact(m) == \E o \in 1 .. Width : Leads(o, m) /\ (o = 1 \/ m[o] < Half)

\* ... or it is shorter and its first byte has the high bit set.
ShortAndHigh(m) == \E o \in 1 .. Width : Leads(o, m) /\ o > 1 /\ m[o] >= Half

LEMMA OffsetLeads ==
    ASSUME Width \in Nat, NEW m \in Magnitude, NEW o, Leads(o, m)
    PROVE  Offset(m) = o
<1> DEFINE First(i) == /\ m[i] # 0 \/ i = Width
                       /\ \A j \in 1 .. i - 1 : m[j] = 0
<1>1. First(o) /\ o \in 1 .. Width
  BY DEF Leads
<1>2. ASSUME NEW i \in 1 .. Width, First(i)
      PROVE  i = o
  <2>1. ~ i < o
    <3>1. i < o => i \in 1 .. o - 1 /\ i # Width
      BY <1>1
    <3> QED
      BY <1>2, <3>1 DEF Leads
  <2>2. ~ o < i
    <3>1. o < i => o \in 1 .. i - 1
      BY <1>1
    <3> QED
      BY <1>2, <3>1 DEF Leads
  <2> QED
    BY <1>1, <2>1, <2>2
<1>3. Offset(m) = CHOOSE i \in 1 .. Width : First(i)
  BY DEF Offset
<1> HIDE DEF First
<1> QED
  BY <1>1, <1>2, <1>3

\* What trim leaves.
LEMMA TrimmedBytes ==
    ASSUME Width \in Nat, Half \in Nat, NEW m \in Magnitude,
           NEW o, Leads(o, m)
    PROVE  /\ Trimmed(m) \in Seq(Byte)
           /\ Len(Trimmed(m)) = Width - o + 1
           /\ \A i \in 1 .. Width - o + 1 : Trimmed(m)[i] = m[o + i - 1]
<1>1. Trimmed(m) = SubSeq(m, o, Width)
  BY OffsetLeads DEF Trimmed
<1>2. /\ o \in Int /\ Width \in Int /\ o <= Width
      /\ \A i \in o .. Width : m[i] \in Byte
  BY DEF Leads, Magnitude
<1> QED
  BY <1>1, <1>2, SubSeqProperties

(***************************************************************************)
(* One magnitude: readInteger takes what writeInteger wrote unless the     *)
(* magnitude is short and has its high bit set, and what it takes is the   *)
(* magnitude (p1363ToDer, derToP1363).                                     *)
(***************************************************************************)
THEOREM IntegerSurvival ==
    ASSUME Width \in Nat, Half \in Nat \ {0}, NEW m \in Magnitude,
           NEW o, Leads(o, m)
    PROVE  /\ Readable(WriteInteger(m)) <=> (o = 1 \/ m[o] < Half)
           /\ Readable(WriteInteger(m)) =>
                 Padded(ReadInteger(WriteInteger(m))) = m
<1> DEFINE t == Trimmed(m)
           w == WriteInteger(m)
<1>1. /\ t \in Seq(Byte) /\ Len(t) = Width - o + 1
      /\ \A i \in 1 .. Width - o + 1 : t[i] = m[o + i - 1]
  BY TrimmedBytes
<1>2. /\ o \in 1 .. Width /\ m[o] # 0 /\ m[o] \in Nat
      /\ \A j \in 1 .. o - 1 : m[j] = 0
      /\ m \in [1 .. Width -> Byte]
  BY DEF Leads, Magnitude, Byte
<1>3. t[1] = m[o]
  BY <1>1, <1>2
<1>4. w = IF m[o] >= Half THEN <<0>> \o t ELSE t
  BY <1>3 DEF WriteInteger
<1> HIDE DEF t, w
<1>5. CASE m[o] >= Half
  <2>1. /\ w \in Seq(Byte) /\ Len(w) = Width - o + 2 /\ w[1] = 0
        /\ \A i \in 1 .. Width - o + 1 : w[i + 1] = t[i]
    <3>1. <<0>> \in Seq(Byte) /\ Len(<<0>>) = 1 /\ <<0>>[1] = 0
      BY DEF Byte
    <3>2. /\ w \in Seq(Byte) /\ Len(w) = 1 + (Width - o + 1)
          /\ \A i \in 1 .. 1 + (Width - o + 1) :
                w[i] = IF i <= 1 THEN <<0>>[i] ELSE t[i - 1]
      BY <1>1, <1>4, <1>5, <3>1, ConcatProperties
    <3>3. w[1] = 0
      BY <1>2, <3>1, <3>2
    <3>4. ASSUME NEW i \in 1 .. Width - o + 1
          PROVE  w[i + 1] = t[i]
      <4>1. i + 1 \in 1 .. 1 + (Width - o + 1) /\ ~ i + 1 <= 1 /\ i + 1 - 1 = i
        BY <1>2
      <4> QED
        BY <3>2, <4>1
    <3> QED
      BY <1>2, <3>2, <3>3, <3>4
  <2>2. Readable(w) <=> o = 1
    BY <1>2, <2>1 DEF Readable
  <2>3. ASSUME o = 1
        PROVE  Padded(ReadInteger(w)) = m
    <3>1. Len(w) = Width + 1 /\ w # <<>>
      BY <1>2, <2>1, <2>3, EmptySeq
    <3>2. /\ Len(Tail(w)) = Width
          /\ \A i \in 1 .. Width : Tail(w)[i] = w[i + 1]
      BY <1>2, <2>1, <3>1, HeadTailProperties
    <3>3. \A i \in 1 .. Width : Tail(w)[i] = m[i]
      BY <1>1, <1>2, <2>1, <2>3, <3>2
    <3>4. ReadInteger(w) = Tail(w)
      BY <3>1 DEF ReadInteger
    <3>5. ASSUME NEW i \in 1 .. Width
          PROVE  /\ ~ i <= Width - Len(Tail(w))
                 /\ i - (Width - Len(Tail(w))) = i
      BY <3>2
    <3>6. Padded(Tail(w)) = [i \in 1 .. Width |-> m[i]]
      BY <3>3, <3>5 DEF Padded
    <3> QED
      BY <1>2, <3>4, <3>6
  <2> QED
    BY <1>2, <1>5, <2>2, <2>3 DEF w
<1>6. CASE m[o] < Half
  <2>1. w = t
    BY <1>2, <1>4, <1>6
  <2>2. Readable(w) /\ ReadInteger(w) = w
    BY <1>1, <1>2, <1>3, <2>1 DEF Readable, ReadInteger
  <2>3. ASSUME NEW i \in 1 .. Width
        PROVE  (IF i <= Width - Len(w) THEN 0 ELSE w[i - (Width - Len(w))]) = m[i]
    <3>1. Width - Len(w) = o - 1
      BY <1>1, <1>2, <2>1
    <3>2. CASE i <= o - 1
      BY <1>2, <3>1, <3>2
    <3>3. CASE ~ i <= o - 1
      <4>1. i - (o - 1) \in 1 .. Width - o + 1 /\ o + (i - (o - 1)) - 1 = i
        BY <1>2, <3>3
      <4> QED
        BY <1>1, <2>1, <3>1, <3>3, <4>1
    <3> QED
      BY <3>2, <3>3
  <2>4. Padded(w) = [i \in 1 .. Width |-> m[i]]
    BY <2>3 DEF Padded
  <2> QED
    BY <1>2, <1>6, <2>2, <2>4 DEF w
<1> QED
  BY <1>2, <1>5, <1>6

-----------------------------------------------------------------------------

\* What signSha256 returns, for either kind of magnitude.
Criterion ==
    stage = "decoded" =>
        /\ Intact(signature[1]) /\ Intact(signature[2]) => result = signature
        /\ ShortAndHigh(signature[1]) \/ ShortAndHigh(signature[2]) =>
              result = <<>>

Computed ==
    /\ signature \in Magnitude \X Magnitude
    /\ stage \in {"signing", "encoded", "decoded"}
    /\ stage # "signing" => encoding = P1363ToDer(signature)
    /\ stage = "decoded" => result = DerToP1363(encoding)

LEMMA ComputedCriterion ==
    ASSUME Width \in Nat, Half \in Nat \ {0}, Computed
    PROVE  Criterion
<1> SUFFICES ASSUME stage = "decoded"
             PROVE  /\ Intact(signature[1]) /\ Intact(signature[2])
                          => result = signature
                    /\ ShortAndHigh(signature[1]) \/ ShortAndHigh(signature[2])
                          => result = <<>>
  BY DEF Criterion
<1> DEFINE r == signature[1]
           s == signature[2]
<1>1. r \in Magnitude /\ s \in Magnitude /\ signature = <<r, s>>
  BY DEF Computed
<1>2. result = IF Readable(WriteInteger(r)) /\ Readable(WriteInteger(s))
               THEN <<Padded(ReadInteger(WriteInteger(r))),
                      Padded(ReadInteger(WriteInteger(s)))>>
               ELSE <<>>
  BY DEF Computed, DerToP1363, P1363ToDer
<1>3. ASSUME NEW m \in Magnitude, Intact(m)
      PROVE  /\ Readable(WriteInteger(m))
             /\ Padded(ReadInteger(WriteInteger(m))) = m
  <2>1. PICK o \in 1 .. Width : Leads(o, m) /\ (o = 1 \/ m[o] < Half)
    BY <1>3 DEF Intact
  <2> QED
    BY <2>1, IntegerSurvival
<1>4. ASSUME NEW m \in Magnitude, ShortAndHigh(m)
      PROVE  ~ Readable(WriteInteger(m))
  <2>1. PICK o \in 1 .. Width : Leads(o, m) /\ o > 1 /\ m[o] >= Half
    BY <1>4 DEF ShortAndHigh
  <2>2. m[o] \in Nat
    BY <2>1 DEF Magnitude, Byte
  <2>3. ~ (o = 1 \/ m[o] < Half)
    BY <2>1, <2>2
  <2> QED
    BY <2>1, <2>3, IntegerSurvival
<1> HIDE DEF r, s
<1>5. Intact(r) /\ Intact(s) => result = signature
  BY <1>1, <1>2, <1>3
<1>6. ShortAndHigh(r) \/ ShortAndHigh(s) => result = <<>>
  BY <1>1, <1>2, <1>4
<1> QED
  BY <1>5, <1>6 DEF r, s

(***************************************************************************)
(* signSha256 returns the signature the key made when both magnitudes are  *)
(* intact, and fails whenever one of them is short with its high bit set,  *)
(* which is what SignatureSurvives runs into (derToP1363, readInteger).    *)
(***************************************************************************)
THEOREM SurvivalCriterion ==
    ASSUME Width \in Nat, Half \in Nat \ {0}
    PROVE  Spec => []Criterion
<1>1. Init => Computed
  BY DEF Init, Computed
<1>2. Computed /\ [Next]_vars => Computed'
  BY DEF Computed, Next, CreateSignature, Decode, vars
<1>3. Computed => Criterion
  BY ComputedCriterion
<1> QED
  BY <1>1, <1>2, <1>3, PTL DEF Spec
==============================================================================
