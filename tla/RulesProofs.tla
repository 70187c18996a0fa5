---------------------------- MODULE RulesProofs ---------------------------
(* Proofs about the rules that are functions of what they are given: LeadFields *)
(* reads each word of a lead once, Negotiation names prices inside its band, the *)
(* days of Periods cover time and compare like with like, and the tables behind  *)
(* Roles agree.                                                                  *)
EXTENDS LeadFields, Negotiation, Periods, Roles, FiniteSetTheorems, WellFoundedInduction, TLAPS

\* Numbers have a least, and with a bound a greatest.
LEMMA LeastNatural ==
    ASSUME NEW T, T \subseteq Nat, T # {}
    PROVE  \E n \in T : \A m \in T : n <= m
<1> DEFINE R == OpToRel(<, Nat)
<1>1. IsWellFoundedOn(R, Nat)
  BY NatLessThanWellFounded
<1>2. R = {ss \in Nat \X Nat : ss[1] < ss[2]}
  BY DEF OpToRel
<1>3. \A m, n \in Nat : <<m, n>> \in R <=> m < n
  BY <1>2
<1> HIDE DEF R
<1>4. PICK n \in T : \A m \in T : <<m, n>> \notin R
  BY <1>1, WFMin, Zenon
<1>5. \A m \in T : ~(m < n) /\ m \in Nat /\ n \in Nat
  BY <1>3, <1>4
<1> QED
  BY <1>5

LEMMA GreatestNatural ==
    ASSUME NEW T, T \subseteq Nat, T # {}, NEW b \in Nat, \A m \in T : m <= b
    PROVE  \E n \in T : \A m \in T : m <= n
<1> DEFINE U == {b - m : m \in T}
<1>1. \A m \in T : b - m \in Nat
  OBVIOUS
<1>2. U \subseteq Nat /\ U # {}
  BY <1>1
<1> HIDE DEF U
<1>3. PICK u \in U : \A v \in U : u <= v
  BY <1>2, LeastNatural
<1>4. PICK n \in T : u = b - n
  BY DEF U
<1>5. ASSUME NEW m \in T PROVE m <= n
  <2>1. b - m \in U
    BY DEF U
  <2> QED
    BY <1>3, <1>4, <2>1
<1> QED
  BY <1>5

LEMMA MinIs ==
    ASSUME NEW T, T \subseteq Nat, T # {}
    PROVE  Min(T) \in T /\ \A m \in T : Min(T) <= m
BY LeastNatural DEF Min

LEMMA MaxIs ==
    ASSUME NEW T, T \subseteq Nat, T # {}, NEW b \in Nat, \A m \in T : m <= b
    PROVE  Max(T) \in T /\ \A m \in T : m <= Max(T)
<1>1. PICK n \in T : \A m \in T : m <= n
  BY GreatestNatural
<1>2. \E x \in T : \A y \in T : x >= y
  BY <1>1
<1>3. Max(T) \in T /\ \A m \in T : Max(T) >= m
  BY <1>2 DEF Max
<1> QED
  BY <1>3

-----------------------------------------------------------------------------
(* LeadFields. *)

\* What the matches of one email are.
MatchesFit(matches) == matches \subseteq Matches /\ \A m, o \in matches : OneLabel(m, o)

LEMMA MatchIs ==
    ASSUME NEW m \in Matches
    PROVE  /\ m.start \in Nat /\ m.end \in Nat /\ m.length \in Nat /\ m.key \in Nat /\ m.index \in Nat
           /\ m.start < m.end /\ m.end <= TextLength /\ m.key \in 1 .. FieldKeys /\ m.index \in 0 .. MaxIndex
BY LeadAssumption DEF Matches, Places

\* The first of some matches: the earliest, of those the longest, of those the first field's.
LEMMA FirstIs ==
    ASSUME NEW matches, MatchesFit(matches), NEW S, S \subseteq matches, S # {}
    PROVE  First(S) \in S /\ \A o \in S \ {First(S)} : Earlier(First(S), o)
<1>1. \A m \in S : m \in Matches
  BY DEF MatchesFit
<1>2. \A m \in S : m.start \in Nat /\ m.length \in Nat /\ m.length <= TextLength /\ m.key \in Nat /\ TextLength \in Nat
  BY <1>1, MatchIs, LeadAssumption DEF Matches
<1> DEFINE starts == {m.start : m \in S}
<1>3. PICK s \in starts : \A u \in starts : s <= u
  <2>1. starts \subseteq Nat /\ starts # {}
    BY <1>2
  <2> HIDE DEF starts
  <2> QED
    BY <2>1, LeastNatural
<1> DEFINE early == {m \in S : m.start = s}
           lengths == {m.length : m \in early}
<1>4. PICK l \in lengths : \A u \in lengths : u <= l
  <2>1. lengths \subseteq Nat /\ lengths # {} /\ \A u \in lengths : u <= TextLength
    BY <1>2, <1>3
  <2>2. TextLength \in Nat
    BY LeadAssumption
  <2> HIDE DEF lengths
  <2> QED
    BY <2>1, <2>2, GreatestNatural
<1> DEFINE long == {m \in early : m.length = l}
           keysOf == {m.key : m \in long}
<1>5. PICK k \in keysOf : \A u \in keysOf : k <= u
  <2>1. keysOf \subseteq Nat /\ keysOf # {}
    BY <1>2, <1>4
  <2> HIDE DEF keysOf
  <2> QED
    BY <2>1, LeastNatural
<1>6. PICK m \in long : m.key = k
  BY <1>5
<1>7. m \in S /\ m.start = s /\ m.length = l /\ m.key = k
  BY <1>6
<1>8. ASSUME NEW o \in S \ {m} PROVE Earlier(m, o)
  <2>1. s <= o.start /\ (o.start = s => o.length <= l) /\ (o.start = s /\ o.length = l => k <= o.key)
    BY <1>3, <1>4, <1>5
  <2>2. ~(o.start = s /\ o.length = l /\ o.key = k)
    <3> SUFFICES ASSUME o.start = s, o.length = l, o.key = k PROVE o = m
      OBVIOUS
    <3>1. o.end = m.end /\ o.index = m.index
      BY <1>7 DEF MatchesFit, OneLabel
    <3> QED
      BY <1>1, <1>7, <3>1 DEF Matches
  <2>3. o.start \in Nat /\ o.length \in Nat /\ o.key \in Nat /\ s \in Nat /\ l \in Nat /\ k \in Nat
    BY <1>2, <1>7
  <2> QED
    BY <1>7, <2>1, <2>2, <2>3 DEF Earlier
<1> DEFINE Wins(x) == \A o \in S \ {x} : Earlier(x, o)
<1>9. First(S) = CHOOSE x \in S : Wins(x)
  BY DEF First
<1>10. Wins(m)
  BY <1>8
<1> HIDE DEF Wins
<1>11. First(S) \in S /\ Wins(First(S))
  BY <1>7, <1>9, <1>10
<1> QED
  BY <1>11 DEF Wins

\* One step of the scan, and the scan as a function of its own.
Behind(matches, place) == {m \in matches : m.start >= place}
Scan(matches, f, place) ==
    IF Behind(matches, place) = {} THEN <<>>
    ELSE <<First(Behind(matches, place))>> \o f[First(Behind(matches, place)).end]

LEMMA FirstBehind ==
    ASSUME NEW matches, MatchesFit(matches), NEW place \in 0 .. TextLength, Behind(matches, place) # {}
    PROVE  LET m == First(Behind(matches, place)) IN
           /\ m \in matches /\ m.start >= place /\ m.end \in place + 1 .. TextLength
           /\ \A o \in Behind(matches, place) \ {m} : Earlier(m, o)
<1> DEFINE m == First(Behind(matches, place))
<1>1. m \in Behind(matches, place) /\ \A o \in Behind(matches, place) \ {m} : Earlier(m, o)
  BY FirstIs DEF Behind
<1>2. m \in matches /\ m.start >= place /\ m \in Matches
  BY <1>1 DEF Behind, MatchesFit
<1> HIDE DEF m
<1>3. m.end \in place + 1 .. TextLength
  BY <1>2, MatchIs, LeadAssumption
<1> QED
  BY <1>1, <1>2, <1>3 DEF m

\* There is such a function: from the end of the text it is built place by place.
LEMMA ScanExists ==
    ASSUME NEW matches, MatchesFit(matches)
    PROVE  \E f : f = [place \in 0 .. TextLength |-> Scan(matches, f, place)]
<1> DEFINE Q(k) == \E f : f = [place \in k .. TextLength |-> Scan(matches, f, place)]
           T == {k \in 0 .. TextLength + 1 : Q(k)}
<1>1. TextLength \in Nat
  BY LeadAssumption
<1>2. Q(TextLength + 1)
  <2> DEFINE f == [place \in {} |-> <<>>]
  <2>1. TextLength + 1 .. TextLength = {}
    BY <1>1
  <2>2. f = [place \in TextLength + 1 .. TextLength |-> Scan(matches, f, place)]
    BY <2>1
  <2> QED
    BY <2>2
<1>3. PICK k \in T : \A j \in T : k <= j
  <2>1. T \subseteq Nat /\ TextLength + 1 \in T
    BY <1>1, <1>2
  <2> HIDE DEF T
  <2> QED
    BY <2>1, LeastNatural
<1>4. k \in 0 .. TextLength + 1 /\ Q(k)
  OBVIOUS
<1>5. ASSUME k # 0 PROVE FALSE
  <2>1. PICK f : f = [place \in k .. TextLength |-> Scan(matches, f, place)]
    BY <1>4
  <2> DEFINE g == [place \in k - 1 .. TextLength |-> IF place = k - 1 THEN Scan(matches, f, k - 1) ELSE f[place]]
  <2>2. \A place \in k .. TextLength : g[place] = f[place]
    BY <1>1, <1>4, <1>5
  <2>3. ASSUME NEW place \in k - 1 .. TextLength PROVE Scan(matches, g, place) = Scan(matches, f, place)
    <3>1. CASE Behind(matches, place) = {}
      BY <3>1 DEF Scan
    <3>2. CASE Behind(matches, place) # {}
      <4>1. First(Behind(matches, place)).end \in k .. TextLength
        <5>1. place \in 0 .. TextLength /\ place >= k - 1
          BY <1>1, <1>4, <1>5
        <5>2. First(Behind(matches, place)).end \in place + 1 .. TextLength
          BY <3>2, <5>1, FirstBehind
        <5> QED
          BY <1>1, <1>4, <5>1, <5>2
      <4> HIDE DEF g
      <4> QED
        BY <2>2, <4>1 DEF Scan
    <3> QED
      BY <3>1, <3>2
  <2>4. \A place \in k - 1 .. TextLength : g[place] = Scan(matches, f, place)
    <3>1. ASSUME NEW place \in k - 1 .. TextLength, place # k - 1 PROVE f[place] = Scan(matches, f, place)
      <4>1. place \in k .. TextLength
        BY <1>1, <1>4, <3>1
      <4> QED
        BY <2>1, <4>1
    <3> QED
      BY <3>1
  <2>5. g = [place \in k - 1 .. TextLength |-> Scan(matches, g, place)]
    BY <2>3, <2>4
  <2>6. Q(k - 1)
    BY <2>5
  <2>7. k - 1 \in T
    BY <1>1, <1>4, <1>5, <2>6
  <2> HIDE DEF T
  <2> QED
    BY <1>1, <1>3, <1>4, <2>7
<1> QED
  BY <1>4, <1>5

LEMMA ScanIsDefined ==
    ASSUME NEW matches, MatchesFit(matches)
    PROVE  \E g : g = [place \in 0 .. TextLength |-> Scan(matches, g, place)] /\ ScanLabels(matches) = g[0]
<1>0. PICK f : f = [place \in 0 .. TextLength |-> Scan(matches, f, place)]
  BY ScanExists
<1> DEFINE From[place \in 0 .. TextLength] ==
               LET rest == {m \in matches : m.start >= place}
               IN IF rest = {} THEN <<>> ELSE <<First(rest)>> \o From[First(rest).end]
           E(g) == g = [place \in 0 .. TextLength |->
                           LET rest == {m \in matches : m.start >= place}
                           IN IF rest = {} THEN <<>> ELSE <<First(rest)>> \o g[First(rest).end]]
<1>1. ScanLabels(matches) = From[0]
  BY DEF ScanLabels
<1>2. E(f)
  BY <1>0 DEF Scan, Behind
<1>3. From = CHOOSE g : E(g)
  OBVIOUS
<1> HIDE DEF E
<1>4. E(From)
  BY <1>2, <1>3
<1>5. From = [place \in 0 .. TextLength |-> Scan(matches, From, place)]
  BY <1>4 DEF E, Scan, Behind
<1> QED
  BY <1>1, <1>5

\* What the scan of a text from a place on keeps: matches one after the other, and of
\* those it does not keep each one overlaps one that it does, which comes first.
Apart(matches, place, s) ==
    /\ s \in Seq(matches)
    /\ \A i \in DOMAIN s : s[i].start >= place
    /\ \A i, j \in DOMAIN s : i < j => s[i].end <= s[j].start

Dropped(m, s) ==
    (\A i \in DOMAIN s : s[i] # m) =>
        \E i \in DOMAIN s :
            /\ s[i].start <= m.start /\ m.start < s[i].end
            /\ s[i].start = m.start => s[i].length >= m.length

ScanFits(matches, place, s) ==
    Apart(matches, place, s) /\ \A m \in matches : m.start >= place => Dropped(m, s)

LEMMA ScanStepFits ==
    ASSUME NEW matches, MatchesFit(matches), NEW place \in 0 .. TextLength,
           NEW m \in matches, m.start >= place,
           \A o \in Behind(matches, place) \ {m} : Earlier(m, o),
           NEW s, ScanFits(matches, m.end, s)
    PROVE  ScanFits(matches, place, <<m>> \o s)
<1> DEFINE t == <<m>> \o s
<1>1. m \in Matches /\ m.start \in Nat /\ m.end \in Nat /\ m.start < m.end /\ place \in Nat /\ m.length \in Nat
  BY MatchIs, LeadAssumption DEF MatchesFit
<1>2. s \in Seq(matches) /\ Len(s) \in Nat /\ DOMAIN s = 1 .. Len(s)
  BY DEF ScanFits, Apart
<1>3. /\ t \in Seq(matches) /\ DOMAIN t = 1 .. Len(s) + 1
      /\ t[1] = m /\ \A i \in DOMAIN s : i + 1 \in DOMAIN t /\ t[i + 1] = s[i]
      /\ \A i \in DOMAIN t : i = 1 \/ (i - 1 \in DOMAIN s /\ t[i] = s[i - 1])
  BY <1>2
<1> HIDE DEF t
<1>4. \A i \in DOMAIN s : s[i] \in matches /\ s[i].start >= m.end /\ s[i].start \in Nat /\ s[i].end \in Nat
  <2>1. \A o \in matches : o.start \in Nat /\ o.end \in Nat
    BY MatchIs DEF MatchesFit
  <2> QED
    BY <1>2, <2>1 DEF ScanFits, Apart
<1>5. \A i \in DOMAIN t : t[i].start >= place
  <2>1. \A i \in DOMAIN s : s[i].start >= place
    BY <1>1, <1>4
  <2> QED
    BY <1>3, <2>1
<1>6. ASSUME NEW i \in DOMAIN t, NEW j \in DOMAIN t, i < j PROVE t[i].end <= t[j].start
  <2>1. j # 1 /\ j - 1 \in DOMAIN s /\ t[j] = s[j - 1]
    BY <1>2, <1>3, <1>6
  <2>2. CASE i = 1
    BY <1>3, <1>4, <2>1, <2>2
  <2>3. CASE i # 1
    <3>1. i - 1 \in DOMAIN s /\ t[i] = s[i - 1] /\ i - 1 < j - 1
      BY <1>2, <1>3, <1>6, <2>3
    <3>2. \A a, b \in DOMAIN s : a < b => s[a].end <= s[b].start
      BY DEF ScanFits, Apart
    <3> QED
      BY <2>1, <3>1, <3>2
  <2> QED
    BY <2>2, <2>3
<1>7. ASSUME NEW o \in matches, o.start >= place, \A i \in DOMAIN t : t[i] # o
      PROVE  \E i \in DOMAIN t :
                 /\ t[i].start <= o.start /\ o.start < t[i].end
                 /\ t[i].start = o.start => t[i].length >= o.length
  <2>1. o \in Matches /\ o.start \in Nat /\ o.length \in Nat
    BY MatchIs DEF MatchesFit
  <2>2. 1 \in DOMAIN t /\ o # m
    BY <1>2, <1>3, <1>7
  <2>3. CASE o.start < m.end
    <3>1. Earlier(m, o)
      BY <1>7, <2>2 DEF Behind
    <3>2. m.start <= o.start /\ (m.start = o.start => m.length >= o.length)
      BY <1>1, <2>1, <3>1 DEF Earlier
    <3> QED
      BY <1>3, <2>2, <2>3, <3>2
  <2>4. CASE o.start >= m.end
    <3>1. \A i \in DOMAIN s : s[i] # o
      BY <1>3, <1>7
    <3>2. PICK i \in DOMAIN s :
              /\ s[i].start <= o.start /\ o.start < s[i].end
              /\ s[i].start = o.start => s[i].length >= o.length
      BY <2>4, <3>1 DEF ScanFits, Dropped
    <3> QED
      BY <1>3, <3>2
  <2> QED
    BY <1>1, <2>1, <2>3, <2>4
<1>8. Apart(matches, place, t)
  BY <1>3, <1>5, <1>6 DEF Apart
<1>9. ScanFits(matches, place, t)
  BY <1>7, <1>8 DEF ScanFits, Dropped
<1> QED
  BY <1>9 DEF t

LEMMA ScanLabelsFits ==
    ASSUME NEW matches, MatchesFit(matches)
    PROVE  ScanFits(matches, 0, ScanLabels(matches))
<1>1. PICK g : g = [place \in 0 .. TextLength |-> Scan(matches, g, place)] /\ ScanLabels(matches) = g[0]
  BY ScanIsDefined
<1> DEFINE T == {place \in 0 .. TextLength : ~ScanFits(matches, place, g[place])}
<1>2. TextLength \in Nat
  BY LeadAssumption
<1>3. ASSUME T # {} PROVE FALSE
  <2>1. PICK place \in T : \A p \in T : p <= place
    <3>1. T \subseteq Nat /\ \A p \in T : p <= TextLength
      BY <1>2
    <3> HIDE DEF T
    <3> QED
      BY <1>2, <1>3, <3>1, GreatestNatural
  <2>2. place \in 0 .. TextLength /\ ~ScanFits(matches, place, g[place])
    OBVIOUS
  <2>3. g[place] = Scan(matches, g, place)
    BY <1>1, <2>2
  <2>4. CASE Behind(matches, place) = {}
    <3>1. g[place] = <<>> /\ \A m \in matches : ~(m.start >= place)
      BY <2>3, <2>4 DEF Scan, Behind
    <3> QED
      BY <2>2, <3>1 DEF ScanFits, Apart
  <2>5. CASE Behind(matches, place) # {}
    <3> DEFINE m == First(Behind(matches, place))
    <3>1. g[place] = <<m>> \o g[m.end]
      BY <2>3, <2>5 DEF Scan
    <3>2. /\ m \in matches /\ m.start >= place /\ m.end \in place + 1 .. TextLength
          /\ \A o \in Behind(matches, place) \ {m} : Earlier(m, o)
      BY <2>2, <2>5, FirstBehind
    <3> HIDE DEF m
    <3>3. m.end \notin T /\ m.end \in 0 .. TextLength
      <4> HIDE DEF T
      <4> QED
        BY <1>2, <2>1, <2>2, <3>2
    <3>4. ScanFits(matches, m.end, g[m.end])
      BY <3>3
    <3> QED
      BY <2>2, <3>1, <3>2, <3>4, ScanStepFits
  <2> QED
    BY <2>4, <2>5
<1>4. 0 \in 0 .. TextLength
  BY <1>2
<1> QED
  BY <1>1, <1>3, <1>4

LeadInv ==
    /\ MatchesFit(email.matches) /\ ScanFits(email.matches, 0, kept)
    /\ email.newlines \subseteq Places /\ email.stretched \subseteq Places

LEMMA InitLeadInv == LeadInit => LeadInv
<1> SUFFICES ASSUME LeadInit PROVE LeadInv
  OBVIOUS
<1>1. email.matches = {} /\ email.newlines = {} /\ email.stretched = {} /\ kept = <<>>
  BY DEF LeadInit, NoEmail
<1> QED
  BY <1>1 DEF LeadInv, MatchesFit, ScanFits, Apart

LEMMA NextLeadInv == LeadInv /\ [LeadNext]_leadVars => LeadInv'
<1> SUFFICES ASSUME LeadInv, [LeadNext]_leadVars PROVE LeadInv'
  OBVIOUS
<1>1. CASE UNCHANGED leadVars
  BY <1>1 DEF LeadInv, leadVars
<1>2. CASE ParseEmail
  <2>1. PICK some \in [1 .. MaxMatches -> Matches] :
            LET matches == {some[i] : i \in 1 .. MaxMatches} IN
            /\ \A m, o \in matches : OneLabel(m, o)
            /\ \E stretched \in Stretches, newlines \in Newlines, blanks \in Blanks :
                  email' = [matches |-> matches, stretched |-> stretched, newlines |-> newlines, blanks |-> blanks]
            /\ kept' = ScanLabels(matches)
    BY <1>2 DEF ParseEmail
  <2> DEFINE matches == {some[i] : i \in 1 .. MaxMatches}
  <2>2. MatchesFit(matches)
    BY <2>1 DEF MatchesFit
  <2>3. email'.matches = matches /\ email'.newlines \subseteq Places /\ email'.stretched \subseteq Places
    BY <2>1, LeadAssumption
  <2>4. ScanFits(matches, 0, kept')
    BY <2>1, <2>2, ScanLabelsFits
  <2> QED
    BY <2>2, <2>3, <2>4 DEF LeadInv
<1> QED
  BY <1>1, <1>2 DEF LeadNext

\* The matches that were kept, one after the other.
LEMMA KeptAre ==
    ASSUME LeadInv
    PROVE  /\ Len(kept) \in Nat /\ DOMAIN kept = 1 .. Len(kept)
           /\ \A i \in DOMAIN kept : kept[i].start \in Nat /\ kept[i].end \in Nat /\ kept[i].start < kept[i].end /\ kept[i].end <= TextLength
           /\ \A i, j \in DOMAIN kept : i < j => kept[i].end <= kept[j].start
<1>1. \A m \in email.matches : m.start \in Nat /\ m.end \in Nat /\ m.start < m.end /\ m.end <= TextLength
  BY MatchIs DEF LeadInv, MatchesFit
<1>2. kept \in Seq(email.matches) /\ \A i, j \in DOMAIN kept : i < j => kept[i].end <= kept[j].start
  BY DEF LeadInv, ScanFits, Apart
<1> QED
  BY <1>1, <1>2

\* The text is at most as long as in lower case, and a place before which nothing
\* was lengthened is the same in both.
LEMMA TextIsShorter ==
    ASSUME LeadInv
    PROVE  /\ TextLength - Cardinality(email.stretched) \in Nat
           /\ \A first, last \in Nat : (\A q \in email.stretched : q > last) =>
                  TextPlaces(email.stretched, first, last) \subseteq first .. last
<1>1. TextLength \in Nat /\ email.stretched \subseteq 0 .. TextLength - 1 /\ TextLength - 1 \in Int
  BY LeadAssumption DEF LeadInv, Places
<1>2. IsFiniteSet(0 .. TextLength - 1) /\ Cardinality(0 .. TextLength - 1) = TextLength
  BY <1>1, FS_Interval
<1>3. Cardinality(email.stretched) \in Nat /\ Cardinality(email.stretched) <= TextLength
  BY <1>1, <1>2, FS_Subset, FS_CardinalityType
<1>4. ASSUME NEW first \in Nat, NEW last \in Nat, \A q \in email.stretched : q > last,
             NEW p \in first .. last
      PROVE  TextPlace(email.stretched, p) = p
  <2>1. {q \in email.stretched : q <= p} = {}
    BY <1>1, <1>4
  <2>2. Cardinality({q \in email.stretched : q <= p}) = 0
    BY <2>1, FS_EmptySet
  <2> QED
    BY <1>4, <2>2 DEF TextPlace
<1> QED
  BY <1>1, <1>3, <1>4 DEF TextPlaces

\* A value lies behind its label, and before a newline and every later label.
LEMMA ValueIs ==
    ASSUME LeadInv, NEW i \in DOMAIN kept
    PROVE  /\ Value(i) \subseteq Nat
           /\ \A p \in Value(i) : p >= kept[i].end /\ p \notin email.newlines
           /\ \A p \in Value(i), j \in DOMAIN kept : i < j => p < kept[j].start
<1> DEFINE length == TextLength - Cardinality(email.stretched)
           next == IF i < Len(kept) THEN {kept[i + 1].start} ELSE {}
           ends == {length} \union next \union {n \in email.newlines : n >= kept[i].end}
           stop == Min(ends)
           words == {p \in kept[i].end .. stop - 1 : p \notin email.blanks}
<1>1. next \subseteq Nat /\ length \in Nat /\ kept[i].end \in Nat
  BY KeptAre, TextIsShorter
<1>2. \A j \in DOMAIN kept : i < j => \E n \in next : n <= kept[j].start
  <2> SUFFICES ASSUME NEW j \in DOMAIN kept, i < j PROVE kept[i + 1].start <= kept[j].start /\ i < Len(kept)
    OBVIOUS
  <2>1. i + 1 \in DOMAIN kept /\ i < Len(kept) /\ (i + 1 = j \/ i + 1 < j)
    BY KeptAre
  <2>2. /\ kept[i + 1].start \in Nat /\ kept[i + 1].end \in Nat /\ kept[i + 1].start < kept[i + 1].end
        /\ kept[j].start \in Nat
    BY <2>1, KeptAre
  <2>3. i + 1 < j => kept[i + 1].end <= kept[j].start
    BY <2>1, KeptAre
  <2> QED
    BY <2>1, <2>2, <2>3
<1>3. stop \in Nat /\ (\A n \in next : stop <= n) /\ \A n \in email.newlines : n >= kept[i].end => stop <= n
  <2>1. ends \subseteq Nat /\ ends # {} /\ next \subseteq ends /\ \A n \in email.newlines : n >= kept[i].end => n \in ends
    BY <1>1 DEF LeadInv, Places
  <2> HIDE DEF ends
  <2>2. stop \in ends /\ \A n \in ends : stop <= n
    BY <2>1, MinIs
  <2> QED
    BY <2>1, <2>2
<1>4. Value(i) = IF words = {} THEN {} ELSE Min(words) .. Max(words)
  BY DEF Value
<1> HIDE DEF stop, next
<1>5. ASSUME words # {} PROVE Min(words) \in words /\ Max(words) \in words
  <2>1. words \subseteq Nat /\ \A p \in words : p <= stop
    BY <1>1, <1>3
  <2> HIDE DEF words
  <2> QED
    BY <1>3, <1>5, <2>1, MinIs, MaxIs
<1>6. \A p \in Value(i) : p \in kept[i].end .. stop - 1
  <2> SUFFICES ASSUME NEW p \in Value(i) PROVE p \in kept[i].end .. stop - 1
    OBVIOUS
  <2>1. words # {} /\ p \in Min(words) .. Max(words)
    BY <1>4
  <2>2. Min(words) \in kept[i].end .. stop - 1 /\ Max(words) \in kept[i].end .. stop - 1
    BY <1>5, <2>1
  <2> HIDE DEF words
  <2> QED
    BY <1>1, <1>3, <2>1, <2>2
<1>7. ASSUME NEW p \in Value(i) PROVE p \in Nat /\ p >= kept[i].end /\ p < stop
  BY <1>1, <1>3, <1>6
<1>8. ASSUME NEW p \in Value(i), NEW j \in DOMAIN kept, i < j PROVE p < kept[j].start
  <2>1. PICK n \in next : n <= kept[j].start
    BY <1>2, <1>8
  <2>2. kept[j].start \in Nat /\ n \in Nat /\ stop <= n
    BY <1>1, <1>3, <2>1, KeptAre
  <2> QED
    BY <1>3, <1>7, <2>1, <2>2
<1>9. ASSUME NEW p \in Value(i) PROVE p \notin email.newlines
  BY <1>3, <1>7
<1> QED
  BY <1>7, <1>8, <1>9

\* So values overlap neither labels nor one another.
LEMMA ValuesAreApart ==
    ASSUME LeadInv, NEW i \in DOMAIN kept, NEW j \in DOMAIN kept
    PROVE  /\ Value(i) \intersect (kept[j].start .. kept[j].end - 1) = {}
           /\ i < j => \A p \in Value(i), q \in Value(j) : p < q
           /\ i # j => Value(i) \intersect Value(j) = {}
<1>1. /\ kept[j].start \in Nat /\ kept[j].end \in Nat /\ kept[j].start < kept[j].end /\ i \in Nat /\ j \in Nat
      /\ kept[i].start \in Nat /\ kept[i].end \in Nat /\ kept[i].start < kept[i].end
      /\ j < i => kept[j].end <= kept[i].start
  BY KeptAre
<1>2. /\ \A p \in Value(i) : p \in Nat /\ p >= kept[i].end /\ (i < j => p < kept[j].start)
      /\ \A p \in Value(j) : p \in Nat /\ p >= kept[j].end /\ (j < i => p < kept[i].start)
  BY ValueIs
<1>3. ASSUME NEW p \in Value(i) PROVE p \notin kept[j].start .. kept[j].end - 1
  <2>1. p \in Nat /\ p >= kept[i].end /\ (i < j => p < kept[j].start)
    BY <1>2
  <2> QED
    BY <1>1, <2>1
<1>4. ASSUME NEW p \in Value(i), NEW q \in Value(j) PROVE (i < j => p < q) /\ (j < i => q < p)
  <2>1. /\ p \in Nat /\ p >= kept[i].end /\ (i < j => p < kept[j].start)
        /\ q \in Nat /\ q >= kept[j].end /\ (j < i => q < kept[i].start)
    BY <1>2
  <2> QED
    BY <1>1, <2>1
<1>5. ASSUME i # j, NEW p \in Value(i), NEW q \in Value(j) PROVE p # q
  <2>1. (i < j \/ j < i) /\ p \in Nat /\ q \in Nat
    BY <1>1, <1>2, <1>5
  <2> QED
    BY <1>4, <2>1
<1> QED
  BY <1>3, <1>4, <1>5

\* What is found of a field is a value of its label: the first that is not empty.
LEMMA FoundIs ==
    ASSUME LeadInv, NEW key, NEW index
    PROVE  /\ Found(key, index) # {} => \E i \in DOMAIN kept :
                  kept[i].key = key /\ kept[i].index = index /\ Value(i) # {} /\ Found(key, index) = Value(i)
           /\ \A j \in DOMAIN kept : kept[j].key = key /\ kept[j].index = index /\ Value(j) # {} =>
                  \E i \in DOMAIN kept : i <= j /\ Value(i) # {} /\ Found(key, index) = Value(i)
<1> DEFINE said == {i \in DOMAIN kept : kept[i].key = key /\ kept[i].index = index /\ Value(i) # {}}
<1>1. Found(key, index) = IF said = {} THEN {} ELSE Value(Min(said))
  BY DEF Found
<1>2. ASSUME said # {} PROVE Min(said) \in said /\ \A j \in said : Min(said) <= j
  <2>1. said \subseteq Nat
    BY KeptAre
  <2> HIDE DEF said
  <2> QED
    BY <1>2, <2>1, MinIs
<1>3. ASSUME Found(key, index) # {}
      PROVE  \E i \in DOMAIN kept :
                 kept[i].key = key /\ kept[i].index = index /\ Value(i) # {} /\ Found(key, index) = Value(i)
  <2>1. said # {}
    BY <1>1, <1>3
  <2> QED
    BY <1>1, <1>2, <2>1
<1>4. ASSUME NEW j \in DOMAIN kept, kept[j].key = key, kept[j].index = index, Value(j) # {}
      PROVE  \E i \in DOMAIN kept : i <= j /\ Value(i) # {} /\ Found(key, index) = Value(i)
  <2>1. j \in said
    BY <1>4
  <2> QED
    BY <1>1, <1>2, <2>1
<1> QED
  BY <1>3, <1>4

LEMMA LeadInvShows == LeadInv => WordsAreReadOnce
<1> SUFFICES ASSUME LeadInv PROVE WordsAreReadOnce
  OBVIOUS
<1>1. ASSUME NEW s \in (1 .. FieldKeys) \X (0 .. MaxIndex), NEW t \in (1 .. FieldKeys) \X (0 .. MaxIndex), s # t
      PROVE  Found(s[1], s[2]) \intersect Found(t[1], t[2]) = {}
  <2> SUFFICES ASSUME Found(s[1], s[2]) # {}, Found(t[1], t[2]) # {} PROVE Found(s[1], s[2]) \intersect Found(t[1], t[2]) = {}
    OBVIOUS
  <2>1. PICK i \in DOMAIN kept : kept[i].key = s[1] /\ kept[i].index = s[2] /\ Found(s[1], s[2]) = Value(i)
    BY FoundIs
  <2>2. PICK j \in DOMAIN kept : kept[j].key = t[1] /\ kept[j].index = t[2] /\ Found(t[1], t[2]) = Value(j)
    BY FoundIs
  <2>3. i # j
    BY <1>1, <2>1, <2>2
  <2> QED
    BY <2>1, <2>2, <2>3, ValuesAreApart
<1>2. ASSUME NEW s \in (1 .. FieldKeys) \X (0 .. MaxIndex), NEW i \in DOMAIN kept
      PROVE  LET value == Found(s[1], s[2]) IN
             /\ (\A q \in email.stretched : q >= kept[i].end) =>
                   value \intersect TextPlaces(email.stretched, kept[i].start, kept[i].end - 1) = {}
             /\ value \intersect email.newlines = {}
             /\ kept[i].key = s[1] /\ kept[i].index = s[2] /\ Value(i) # {} =>
                   value # {} /\ Min(value) <= Min(Value(i))
  <2> DEFINE value == Found(s[1], s[2])
  <2>1. /\ value \intersect (kept[i].start .. kept[i].end - 1) = {}
        /\ value \intersect email.newlines = {}
    <3>1. CASE value = {}
      BY <3>1
    <3>2. CASE value # {}
      <4>1. PICK j \in DOMAIN kept : value = Value(j)
        BY <3>2, FoundIs
      <4> HIDE DEF value
      <4> QED
        BY <4>1, ValuesAreApart, ValueIs
    <3> QED
      BY <3>1, <3>2
  <2>2. ASSUME kept[i].key = s[1], kept[i].index = s[2], Value(i) # {}
        PROVE  value # {} /\ Min(value) <= Min(Value(i))
    <3>1. PICK j \in DOMAIN kept : j <= i /\ Value(j) # {} /\ value = Value(j)
      BY <2>2, FoundIs
    <3> HIDE DEF value
    <3>2. Min(Value(i)) \in Value(i) /\ Min(Value(j)) \in Value(j) /\ Min(Value(i)) \in Nat /\ Min(Value(j)) \in Nat
      <4>1. Value(i) \subseteq Nat /\ Value(j) \subseteq Nat
        BY ValueIs
      <4> QED
        BY <2>2, <3>1, <4>1, MinIs
    <3>3. CASE j = i
      BY <3>1, <3>2, <3>3
    <3>4. CASE j # i
      <4>1. j < i
        BY <3>1, <3>4, KeptAre
      <4>2. Min(Value(j)) < Min(Value(i))
        BY <3>2, <4>1, ValuesAreApart
      <4> QED
        BY <3>1, <3>2, <4>2
    <3> QED
      BY <3>3, <3>4
  <2>3. ASSUME \A q \in email.stretched : q >= kept[i].end
        PROVE  value \intersect TextPlaces(email.stretched, kept[i].start, kept[i].end - 1) = {}
    <3>1. kept[i].start \in Nat /\ kept[i].end \in Nat /\ kept[i].end - 1 \in Nat
      BY KeptAre
    <3>2. \A q \in email.stretched : q > kept[i].end - 1
      BY <2>3, <3>1, LeadAssumption DEF LeadInv, Places
    <3>3. TextPlaces(email.stretched, kept[i].start, kept[i].end - 1) \subseteq kept[i].start .. kept[i].end - 1
      BY <3>1, <3>2, TextIsShorter
    <3> QED
      BY <2>1, <3>3
  <2> QED
    BY <2>1, <2>2, <2>3
<1>3. ASSUME NEW m \in email.matches, \A i \in DOMAIN kept : kept[i] # m
      PROVE  \E i \in DOMAIN kept :
                 /\ kept[i].start <= m.start /\ m.start < kept[i].end
                 /\ kept[i].start = m.start => kept[i].length >= m.length
  <2>1. m.start >= 0
    BY MatchIs DEF LeadInv, MatchesFit
  <2> QED
    BY <1>3, <2>1 DEF LeadInv, ScanFits, Dropped
<1>4. ASSUME NEW key \in VehicleKeys, Found(key, FieldIndex(key)) # {} PROVE FieldIndex(key) \in VehicleSlots
  <2>1. PICK i \in DOMAIN kept : kept[i].key = key /\ kept[i].index = FieldIndex(key)
    BY <1>4, FoundIs
  <2> QED
    BY <2>1 DEF VehicleSlots
<1> QED
  BY <1>1, <1>2, <1>3, <1>4, Zenon DEF WordsAreReadOnce

\* lead_fields.parse_email_fields: of any text and labels, however they overlap, each
\* word is read at most once, and no label into a value, but where a character
\* before it is two in lower case.
THEOREM WordsStayReadOnce == LeadSpec => []WordsAreReadOnce
<1>1. LeadSpec => []LeadInv
  BY InitLeadInv, NextLeadInv, PTL DEF LeadSpec
<1> QED
  BY <1>1, LeadInvShows, PTL

-----------------------------------------------------------------------------
(* Negotiation. *)

\* What MapThenSumSet does with a set, of a function for its operator.
Pick(s) == CHOOSE x \in s : TRUE
Add(w, sum, s) == IF s = {} THEN 0 ELSE w[Pick(s)] + sum[s \ {Pick(s)}]
Sums(w, S, sum) == sum = [s \in SUBSET S |-> Add(w, sum, s)]

\* A member is picked as long as there is one.
LEMMA PickIsIn == ASSUME NEW s, s # {} PROVE Pick(s) \in s
BY DEF Pick

\* A set is bigger than what is left of it without a member.
LEMMA WithoutOne ==
    ASSUME NEW S, IsFiniteSet(S), NEW s, s \subseteq S, NEW x \in s
    PROVE  s \ {x} \subseteq S /\ Cardinality(s) \in Nat /\ Cardinality(s \ {x}) \in Nat
           /\ Cardinality(s \ {x}) = Cardinality(s) - 1
<1>1. IsFiniteSet(s)
  BY FS_Subset
<1> QED
  BY <1>1, FS_RemoveElement, FS_CardinalityType

\* The sums of the subsets with up to so many members are there, one more at a time.
LEMMA SumsExist ==
    ASSUME NEW S, IsFiniteSet(S), NEW w
    PROVE  \E sum : Sums(w, S, sum)
<1> DEFINE Small(k) == {s \in SUBSET S : Cardinality(s) < k}
           Q(k) == \E sum : sum = [s \in Small(k) |-> Add(w, sum, s)]
           T == {k \in Nat : ~Q(k)}
<1>1. T = {}
  <2> SUFFICES ASSUME T # {} PROVE FALSE
    OBVIOUS
  <2>1. PICK k \in T : \A j \in T : k <= j
    <3>1. T \subseteq Nat
      OBVIOUS
    <3> HIDE DEF T
    <3> QED
      BY <3>1, LeastNatural
  <2>2. k \in Nat /\ ~Q(k)
    OBVIOUS
  <2>3. k # 0
    <3>1. Small(0) = {}
      <4>1. ASSUME NEW s \in SUBSET S PROVE Cardinality(s) \in Nat
        BY FS_Subset, FS_CardinalityType
      <4> QED
        BY <4>1
    <3> DEFINE none == [s \in {} |-> 0]
    <3>2. none = [s \in Small(0) |-> Add(w, none, s)]
      BY <3>1
    <3>3. Q(0)
      BY <3>2
    <3> QED
      BY <2>2, <3>3
  <2>4. Q(k - 1)
    <3>1. k - 1 \in Nat /\ ~(k <= k - 1)
      BY <2>2, <2>3
    <3>2. k - 1 \notin T
      BY <2>1, <3>1
    <3> QED
      BY <3>1, <3>2
  <2>5. PICK sum : sum = [s \in Small(k - 1) |-> Add(w, sum, s)]
    BY <2>4
  <2> DEFINE more == [s \in Small(k) |-> Add(w, sum, s)]
  <2>6. Small(k - 1) \subseteq Small(k)
    BY <2>2, FS_Subset, FS_CardinalityType
  <2>7. \A s \in Small(k - 1) : more[s] = sum[s]
    BY <2>5, <2>6
  <2>8. ASSUME NEW s \in Small(k) PROVE Add(w, sum, s) = Add(w, more, s)
    <3>1. CASE s = {}
      BY <3>1 DEF Add
    <3>2. CASE s # {}
      <4>1. s \ {Pick(s)} \in Small(k - 1)
        BY <2>2, <3>2, PickIsIn, WithoutOne
      <4>2. more[s \ {Pick(s)}] = sum[s \ {Pick(s)}]
        BY <2>7, <4>1
      <4> HIDE DEF more
      <4> QED
        BY <4>2 DEF Add
    <3> QED
      BY <3>1, <3>2
  <2>9. more = [s \in Small(k) |-> Add(w, more, s)]
    BY <2>8
  <2> QED
    BY <2>2, <2>9
<1>2. Cardinality(S) + 1 \in Nat
  BY FS_CardinalityType
<1>3. Small(Cardinality(S) + 1) = SUBSET S
  <2>1. ASSUME NEW s \in SUBSET S PROVE Cardinality(s) < Cardinality(S) + 1
    BY FS_Subset, FS_CardinalityType
  <2> QED
    BY <2>1
<1>4. Q(Cardinality(S) + 1)
  BY <1>1, <1>2
<1> QED
  BY <1>3, <1>4 DEF Sums

\* Of some subsets there is one that is no more so without any of its members.
LEMMA SmallestSubset ==
    ASSUME NEW S, IsFiniteSet(S), NEW B, B \subseteq SUBSET S, B # {}
    PROVE  \E s \in B : \A x \in s : s \ {x} \notin B
<1> DEFINE sizes == {Cardinality(s) : s \in B}
<1>1. \A s \in B : Cardinality(s) \in Nat
  BY FS_Subset, FS_CardinalityType
<1>2. PICK n \in sizes : \A m \in sizes : n <= m
  <2>1. sizes \subseteq Nat /\ sizes # {}
    BY <1>1
  <2> HIDE DEF sizes
  <2> QED
    BY <2>1, LeastNatural
<1>3. PICK s \in B : n = Cardinality(s)
  OBVIOUS
<1>4. ASSUME NEW x \in s, s \ {x} \in B PROVE FALSE
  <2>1. Cardinality(s \ {x}) = Cardinality(s) - 1 /\ Cardinality(s) \in Nat
    BY <1>1, WithoutOne
  <2>2. n <= Cardinality(s \ {x})
    BY <1>2, <1>4
  <2> QED
    BY <1>3, <2>1, <2>2
<1> QED
  BY <1>4

\* Sums of natural numbers are natural numbers.
LEMMA SumsAreNatural ==
    ASSUME NEW S, IsFiniteSet(S), NEW w, \A x \in S : w[x] \in Nat, NEW sum, Sums(w, S, sum)
    PROVE  \A s \in SUBSET S : sum[s] \in Nat
<1> DEFINE B == {s \in SUBSET S : sum[s] \notin Nat}
<1>1. SUFFICES ASSUME B # {} PROVE FALSE
  OBVIOUS
<1>2. PICK s \in B : \A x \in s : s \ {x} \notin B
  <2>1. B \subseteq SUBSET S
    OBVIOUS
  <2> HIDE DEF B
  <2> QED
    BY <1>1, <2>1, SmallestSubset
<1>3. s \in SUBSET S /\ sum[s] \notin Nat /\ sum[s] = Add(w, sum, s)
  BY DEF Sums
<1>4. s # {}
  BY <1>3 DEF Add
<1>5. Pick(s) \in s /\ s \ {Pick(s)} \in SUBSET S /\ s \ {Pick(s)} \notin B
  BY <1>2, <1>3, <1>4, PickIsIn
<1>6. sum[s \ {Pick(s)}] \in Nat /\ w[Pick(s)] \in Nat
  BY <1>3, <1>5
<1>7. sum[s] = w[Pick(s)] + sum[s \ {Pick(s)}]
  BY <1>3, <1>4 DEF Add
<1> QED
  BY <1>3, <1>6, <1>7

\* Whichever member is taken out first, the sum is the same.
LEMMA SumTakesAny ==
    ASSUME NEW S, IsFiniteSet(S), NEW w, \A x \in S : w[x] \in Nat, NEW sum, Sums(w, S, sum)
    PROVE  \A s \in SUBSET S : \A x \in s : sum[s] = w[x] + sum[s \ {x}]
<1> DEFINE B == {s \in SUBSET S : \E x \in s : sum[s] # w[x] + sum[s \ {x}]}
<1>1. SUFFICES ASSUME B # {} PROVE FALSE
  OBVIOUS
<1>2. PICK s \in B : \A x \in s : s \ {x} \notin B
  <2>1. B \subseteq SUBSET S
    OBVIOUS
  <2> HIDE DEF B
  <2> QED
    BY <1>1, <2>1, SmallestSubset
<1>3. PICK x \in s : sum[s] # w[x] + sum[s \ {x}]
  OBVIOUS
<1>4. \A u \in SUBSET S : u # {} => Pick(u) \in u /\ sum[u] = w[Pick(u)] + sum[u \ {Pick(u)}]
  BY PickIsIn DEF Sums, Add
<1> DEFINE p == Pick(s)
<1>5. s \in SUBSET S /\ p \in s /\ sum[s] = w[p] + sum[s \ {p}] /\ p # x
  BY <1>3, <1>4
<1> HIDE DEF p
<1>6. s \ {p} \in SUBSET S /\ s \ {x} \in SUBSET S /\ s \ {p, x} \in SUBSET S /\ x \in s \ {p} /\ p \in s \ {x}
  BY <1>3, <1>5
<1>7. sum[s \ {p}] = w[x] + sum[s \ {p, x}]
  <2>1. s \ {p} \notin B
    BY <1>2, <1>5
  <2>2. sum[s \ {p}] = w[x] + sum[(s \ {p}) \ {x}]
    BY <1>6, <2>1
  <2>3. (s \ {p}) \ {x} = s \ {p, x}
    OBVIOUS
  <2> QED
    BY <2>2, <2>3
<1>8. sum[s \ {x}] = w[p] + sum[s \ {p, x}]
  <2>1. s \ {x} \notin B
    BY <1>2, <1>3
  <2>2. sum[s \ {x}] = w[p] + sum[(s \ {x}) \ {p}]
    BY <1>6, <2>1
  <2>3. (s \ {x}) \ {p} = s \ {p, x}
    OBVIOUS
  <2> QED
    BY <2>2, <2>3
<1>9. w[p] \in Nat /\ w[x] \in Nat /\ sum[s \ {p, x}] \in Nat
  BY <1>3, <1>5, <1>6, SumsAreNatural
<1> HIDE DEF B
<1> QED
  BY <1>3, <1>5, <1>7, <1>8, <1>9

\* Sums of more are more, whichever set each is summed in.
LEMMA SumsGrow ==
    ASSUME NEW S, IsFiniteSet(S), NEW w, \A x \in S : w[x] \in Nat, NEW sum, Sums(w, S, sum),
           NEW R \in SUBSET S, NEW part, Sums(w, R, part)
    PROVE  \A s \in SUBSET S : \A t \in SUBSET R : t \subseteq s => part[t] <= sum[s]
<1> DEFINE B == {s \in SUBSET S : \E t \in SUBSET R : t \subseteq s /\ ~(part[t] <= sum[s])}
<1>1. SUFFICES ASSUME B # {} PROVE FALSE
  OBVIOUS
<1>2. PICK s \in B : \A x \in s : s \ {x} \notin B
  <2>1. B \subseteq SUBSET S
    OBVIOUS
  <2> HIDE DEF B
  <2> QED
    BY <1>1, <2>1, SmallestSubset
<1>3. PICK t \in SUBSET R : t \subseteq s /\ ~(part[t] <= sum[s])
  OBVIOUS
<1>4. IsFiniteSet(R) /\ \A x \in R : w[x] \in Nat
  BY FS_Subset
<1>5. s \in SUBSET S /\ sum[s] \in Nat /\ part[t] \in Nat
  BY <1>4, SumsAreNatural
<1>6. s # {}
  <2> SUFFICES ASSUME s = {} PROVE FALSE
    OBVIOUS
  <2>1. t = {}
    BY <1>3
  <2>2. part[t] = 0
    BY <2>1 DEF Sums, Add
  <2> QED
    BY <1>3, <1>5, <2>2
<1>7. PICK x \in s : TRUE
  BY <1>6
<1>8. sum[s] = w[x] + sum[s \ {x}] /\ w[x] \in Nat /\ sum[s \ {x}] \in Nat
  <2>1. s \ {x} \in SUBSET S /\ x \in S
    BY <1>5
  <2> QED
    BY <1>5, <2>1, SumTakesAny, SumsAreNatural
<1>9. s \ {x} \in SUBSET S /\ s \ {x} \notin B
  BY <1>2, <1>5
<1>10. CASE x \in t
  <2>1. t \ {x} \in SUBSET R /\ t \ {x} \subseteq s \ {x}
    BY <1>3
  <2>2. part[t] = w[x] + part[t \ {x}]
    BY <1>4, <1>10, SumTakesAny
  <2>3. part[t \ {x}] <= sum[s \ {x}]
    BY <1>9, <2>1
  <2>4. part[t \ {x}] \in Nat
    BY <1>4, <2>1, SumsAreNatural
  <2> QED
    BY <1>3, <1>8, <2>2, <2>3, <2>4
<1>11. CASE x \notin t
  <2>1. t \subseteq s \ {x}
    BY <1>3, <1>11
  <2>2. part[t] <= sum[s \ {x}]
    BY <1>9, <2>1
  <2> QED
    BY <1>3, <1>5, <1>8, <2>2
<1> QED
  BY <1>10, <1>11

\* The weights of n moves.
WeightsOf(n) == [i \in 1 .. n |-> n + 2 - i]

\* MapThenSumSet sums the weights.
LEMMA WeightIs ==
    ASSUME NEW n \in Nat, NEW k \in 0 .. n
    PROVE  \E sum : Sums(WeightsOf(n), 1 .. k, sum) /\ Weight(n, k) = sum[1 .. k]
<1> DEFINE iter[s \in SUBSET (1 .. k)] ==
               IF s = {} THEN 0
               ELSE LET x == CHOOSE x \in s : TRUE IN (n + 2 - x) + iter[s \ {x}]
           E(g) == g = [s \in SUBSET (1 .. k) |->
                           IF s = {} THEN 0
                           ELSE LET x == CHOOSE x \in s : TRUE IN (n + 2 - x) + g[s \ {x}]]
<1>1. Weight(n, k) = iter[1 .. k]
  BY DEF Weight, MapThenSumSet, MapThenFoldSet
<1>2. iter = CHOOSE g : E(g)
  OBVIOUS
<1> HIDE DEF iter
<1>3. ASSUME NEW g PROVE Sums(WeightsOf(n), 1 .. k, g) <=> E(g)
  <2>1. ASSUME NEW s \in SUBSET (1 .. k), s # {} PROVE WeightsOf(n)[Pick(s)] = n + 2 - Pick(s)
    <3>1. Pick(s) \in s
      BY <2>1, PickIsIn
    <3>2. Pick(s) \in 1 .. n
      <4>1. s \subseteq 1 .. k /\ 1 .. k \subseteq 1 .. n
        OBVIOUS
      <4> QED
        BY <3>1, <4>1
    <3> QED
      BY <3>2 DEF WeightsOf
  <2>2. ASSUME NEW s \in SUBSET (1 .. k)
        PROVE  Add(WeightsOf(n), g, s) = IF s = {} THEN 0 ELSE (n + 2 - Pick(s)) + g[s \ {Pick(s)}]
    BY <2>1 DEF Add
  <2>3. E(g) <=> g = [s \in SUBSET (1 .. k) |-> IF s = {} THEN 0 ELSE (n + 2 - Pick(s)) + g[s \ {Pick(s)}]]
    BY DEF Pick
  <2> HIDE DEF E
  <2> QED
    BY <2>2, <2>3 DEF Sums
<1>4. \E sum : Sums(WeightsOf(n), 1 .. k, sum)
  <2>1. IsFiniteSet(1 .. k)
    BY FS_Interval
  <2> QED
    BY <2>1, SumsExist
<1> HIDE DEF E
<1>5. E(iter)
  BY <1>2, <1>3, <1>4
<1> QED
  BY <1>1, <1>3, <1>5

\* The first of the moves weigh no more than all of them, which weigh something.
LEMMA WeightsFit ==
    ASSUME NEW n \in Nat \ {0}, NEW k \in 0 .. n
    PROVE  /\ Weight(n, k) \in Nat /\ Weight(n, n) \in Nat \ {0}
           /\ Weight(n, k) <= Weight(n, n)
<1>1. PICK part : Sums(WeightsOf(n), 1 .. k, part) /\ Weight(n, k) = part[1 .. k]
  BY WeightIs
<1>2. PICK sum : Sums(WeightsOf(n), 1 .. n, sum) /\ Weight(n, n) = sum[1 .. n]
  BY WeightIs
<1>3. IsFiniteSet(1 .. n) /\ IsFiniteSet(1 .. k) /\ 1 .. k \subseteq 1 .. n
  BY FS_Interval
<1>4. \A x \in 1 .. n : WeightsOf(n)[x] \in Nat /\ WeightsOf(n)[x] >= 2
  BY DEF WeightsOf
<1>5. \A x \in 1 .. k : WeightsOf(n)[x] \in Nat
  BY <1>4
<1>6. \A s \in SUBSET (1 .. k) : part[s] \in Nat
  BY <1>1, <1>3, <1>5, SumsAreNatural
<1>7. \A s \in SUBSET (1 .. n) : sum[s] \in Nat
  BY <1>2, <1>3, <1>4, SumsAreNatural
<1>8. part[1 .. k] <= sum[1 .. n]
  <2>1. \A s \in SUBSET (1 .. n) : \A t \in SUBSET (1 .. k) : t \subseteq s => part[t] <= sum[s]
    BY <1>1, <1>2, <1>3, <1>4, SumsGrow
  <2> QED
    BY <1>3, <2>1
<1>9. sum[1 .. n] = WeightsOf(n)[1] + sum[(1 .. n) \ {1}]
  <2> DEFINE M == 1 .. n
  <2>1. IsFiniteSet(M) /\ (\A x \in M : WeightsOf(n)[x] \in Nat) /\ Sums(WeightsOf(n), M, sum) /\ 1 \in M /\ M \in SUBSET M
    BY <1>2, <1>3, <1>4
  <2> HIDE DEF M
  <2>2. sum[M] = WeightsOf(n)[1] + sum[M \ {1}]
    BY <2>1, SumTakesAny
  <2> QED
    BY <2>2 DEF M
<1>10. sum[1 .. n] # 0
  <2>1. WeightsOf(n)[1] >= 2 /\ WeightsOf(n)[1] \in Nat /\ sum[(1 .. n) \ {1}] \in Nat
    BY <1>4, <1>7
  <2> QED
    BY <1>9, <2>1
<1> QED
  BY <1>1, <1>2, <1>6, <1>7, <1>8, <1>10

\* A share of what there is is no more than that.
LEMMA ShareFits ==
    ASSUME NEW room \in Nat, NEW a \in Nat, NEW b \in Nat \ {0}, a <= b
    PROVE  (room * a) \div b \in 0 .. room
<1> DEFINE q == (room * a) \div b
<1>1. room * a \in Nat /\ room * b \in Nat
  OBVIOUS
<1>2. room * a <= room * b
  OBVIOUS
<1>3. q \in Int /\ q * b <= room * a /\ room * a < (q + 1) * b
  BY <1>1
<1> HIDE DEF q
<1>4. q <= room
  <2> SUFFICES ASSUME q >= room + 1 PROVE FALSE
    BY <1>3
  <2>1. (room + 1) * b <= q * b
    BY <1>3
  <2>2. (room + 1) * b = room * b + b
    OBVIOUS
  <2> QED
    BY <1>1, <1>2, <1>3, <2>1, <2>2
<1>5. q >= 0
  <2> SUFFICES ASSUME q + 1 <= 0 PROVE FALSE
    BY <1>3
  <2>1. (q + 1) * b <= 0
    BY <1>3
  <2> QED
    BY <1>1, <1>3, <2>1
<1> QED
  BY <1>3, <1>4, <1>5 DEF q

\* No step goes below the opening price or past the limit.
LEMMA RoundedFits ==
    ASSUME NEW room \in Nat, NEW n \in Nat \ {0}, NEW k \in 0 .. n
    PROVE  Rounded(room, n, k) \in 0 .. room
<1>1. Moved(room, n, k) \in 0 .. room
  BY WeightsFit, ShareFits DEF Moved
<1> QED
  BY <1>1 DEF Rounded, ROUNDING

\* The members of P below p.
Below(P, p) == {q \in P : q < p}

\* Of finitely many integers each number of smaller ones occurs, and the greater
\* one has the more of them.
LEMMA RanksAreAll ==
    ASSUME NEW P, IsFiniteSet(P), P \subseteq Int
    PROVE  /\ \A p, r \in P : p < r <=> Cardinality(Below(P, p)) < Cardinality(Below(P, r))
           /\ \A i \in 1 .. Cardinality(P) : \E p \in P : Cardinality(Below(P, p)) = i - 1
<1> DEFINE n == Cardinality(P)
           rank == [p \in P |-> Cardinality(Below(P, p))]
<1>1. n \in Nat
  BY FS_CardinalityType
<1>2. ASSUME NEW p \in P
      PROVE  IsFiniteSet(Below(P, p)) /\ Cardinality(Below(P, p)) \in 0 .. n - 1
  <2>1. Below(P, p) \subseteq P /\ p \notin Below(P, p)
    BY DEF Below
  <2>2. IsFiniteSet(Below(P, p)) /\ Cardinality(Below(P, p)) < n
    BY <2>1, FS_Subset, FS_CardinalityType
  <2> QED
    BY <1>1, <2>2, FS_CardinalityType
<1>3. ASSUME NEW p \in P, NEW r \in P, p < r
      PROVE  Cardinality(Below(P, p)) < Cardinality(Below(P, r))
  <2>1. Below(P, p) \subseteq Below(P, r) /\ p \in Below(P, r) /\ p \notin Below(P, p)
    <3>1. \A q \in P : q \in Int /\ (q < p => q < r)
      BY <1>3
    <3>2. p \in Int
      OBVIOUS
    <3>3. p \in Below(P, r) /\ p \notin Below(P, p)
      BY <1>3, <3>2 DEF Below
    <3>4. ASSUME NEW q \in Below(P, p) PROVE q \in Below(P, r)
      BY <3>1 DEF Below
    <3> QED
      BY <3>3, <3>4
  <2>2. IsFiniteSet(Below(P, r)) /\ Below(P, p) # Below(P, r)
    BY <1>2, <2>1
  <2> QED
    BY <2>1, <2>2, FS_Subset, FS_CardinalityType
<1>4. \A p, r \in P : p < r <=> Cardinality(Below(P, p)) < Cardinality(Below(P, r))
  <2> SUFFICES ASSUME NEW p \in P, NEW r \in P
               PROVE  p < r <=> Cardinality(Below(P, p)) < Cardinality(Below(P, r))
    OBVIOUS
  <2>1. Cardinality(Below(P, p)) \in Nat /\ Cardinality(Below(P, r)) \in Nat /\ p \in Int /\ r \in Int
    BY <1>1, <1>2
  <2>2. p < r \/ p = r \/ r < p
    BY <2>1
  <2> QED
    BY <1>3, <2>1, <2>2
<1>5. rank \in Injection(P, 0 .. n - 1)
  <2>1. rank \in [P -> 0 .. n - 1]
    BY <1>2
  <2>2. ASSUME NEW p \in P, NEW r \in P, rank[p] = rank[r] PROVE p = r
    <3>1. rank[p] = Cardinality(Below(P, p)) /\ rank[r] = Cardinality(Below(P, r))
      OBVIOUS
    <3>2. Cardinality(Below(P, p)) \in Nat /\ Cardinality(Below(P, r)) \in Nat /\ p \in Int /\ r \in Int
      BY <1>1, <1>2
    <3> HIDE DEF rank
    <3>3. ASSUME NEW a \in P, NEW b \in P, a < b, Cardinality(Below(P, a)) = Cardinality(Below(P, b)) PROVE FALSE
      <4>1. Cardinality(Below(P, a)) < Cardinality(Below(P, b)) /\ Cardinality(Below(P, a)) \in Nat
        BY <1>1, <1>2, <1>3, <3>3
      <4> QED
        BY <3>3, <4>1
    <3>4. ~(p < r) /\ ~(r < p)
      BY <2>2, <3>1, <3>3
    <3> QED
      BY <3>2, <3>4
  <2> HIDE DEF rank
  <2> QED
    BY <2>1, <2>2 DEF Injection, IsInjective
<1>6. IsFiniteSet(0 .. n - 1) /\ Cardinality(0 .. n - 1) = n
  <2>1. 0 \in Int /\ n - 1 \in Int
    BY <1>1
  <2>2. IsFiniteSet(0 .. n - 1) /\ Cardinality(0 .. n - 1) = IF 0 > n - 1 THEN 0 ELSE (n - 1) - 0 + 1
    BY <2>1, FS_Interval
  <2> QED
    BY <1>1, <2>2
<1>7. rank \in Surjection(P, 0 .. n - 1)
  <2> HIDE DEF rank
  <2> QED
    BY <1>5, <1>6, FS_Injection
<1>8. ASSUME NEW i \in 1 .. n PROVE \E p \in P : Cardinality(Below(P, p)) = i - 1
  <2>1. i - 1 \in 0 .. n - 1
    BY <1>1
  <2>2. \E p \in P : rank[p] = i - 1
    <3> HIDE DEF rank
    <3> QED
      BY <1>7, <2>1 DEF Surjection
  <2> QED
    BY <2>2
<1> QED
  BY <1>4, <1>8

\* What the caller of next_step relies on of a ladder.
LadderFits(room, n, l) ==
    /\ l \in Seq(Int) /\ Len(l) >= 1 /\ (Len(l) <= 1 \/ Len(l) <= n + 1)
    /\ room >= 0 =>
        /\ \A i \in 1 .. Len(l) : l[i] \in 0 .. room
        /\ \A i, j \in 1 .. Len(l) : i < j => l[i] < l[j]
        /\ n > 0 => l[Len(l)] = room

\* ladder gives such a list for any band and any number of concessions.
LEMMA LaddersFit ==
    ASSUME NEW room \in Int, NEW n \in Int
    PROVE  LadderFits(room, n, LadderOf(room, n))
<1>1. CASE room <= 0 \/ n <= 0
  <2>1. LadderOf(room, n) = <<0>>
    BY <1>1 DEF LadderOf
  <2> QED
    BY <1>1, <2>1 DEF LadderFits
<1>2. CASE room > 0 /\ n > 0
  <2> DEFINE steps == {Rounded(room, n, k) : k \in 1 .. n - 1}
             P == {0, room} \union steps
             size == Cardinality(P)
             At(i) == CHOOSE p \in P : Cardinality({q \in P : q < p}) = i - 1
             l == [i \in 1 .. size |-> At(i)]
  <2>1. room \in Nat /\ n \in Nat \ {0} /\ n - 1 \in Nat
    BY <1>2
  <2>2. ~(room <= 0 \/ n <= 0)
    BY <1>2
  <2>3. LadderOf(room, n) = l
    BY <2>2 DEF LadderOf
  <2>4. steps \subseteq 0 .. room
    <3>1. ASSUME NEW k \in 1 .. n - 1 PROVE Rounded(room, n, k) \in 0 .. room
      <4>1. k \in 0 .. n
        BY <2>1
      <4> QED
        BY <2>1, <4>1, RoundedFits
    <3> QED
      BY <3>1
  <2>5. IsFiniteSet(steps) /\ Cardinality(steps) \in Nat /\ Cardinality(steps) <= n - 1
    <3> DEFINE nth == [k \in 1 .. n - 1 |-> Rounded(room, n, k)]
    <3>1. nth \in Surjection(1 .. n - 1, steps)
      BY DEF Surjection
    <3>2. IsFiniteSet(1 .. n - 1) /\ Cardinality(1 .. n - 1) = n - 1
      <4>1. IsFiniteSet(1 .. n - 1) /\ Cardinality(1 .. n - 1) = IF 1 > n - 1 THEN 0 ELSE (n - 1) - 1 + 1
        BY <2>1, FS_Interval
      <4> QED
        BY <2>1, <4>1
    <3> HIDE DEF nth, steps
    <3> QED
      BY <3>1, <3>2, FS_Surjection, FS_CardinalityType
  <2>6. IsFiniteSet({0, room}) /\ Cardinality({0, room}) = 2
    <3>1. IsFiniteSet({0}) /\ Cardinality({0}) = 1
      BY FS_Singleton
    <3>2. IsFiniteSet({0} \union {room}) /\ Cardinality({0} \union {room}) = 2
      BY <1>2, <3>1, FS_AddElement
    <3>3. {0} \union {room} = {0, room}
      OBVIOUS
    <3> QED
      BY <3>2, <3>3
  <2>7. IsFiniteSet(P) /\ size \in Nat /\ size <= n + 1
    <3> HIDE DEF steps
    <3>1. /\ IsFiniteSet(P)
          /\ size = Cardinality({0, room}) + Cardinality(steps) - Cardinality({0, room} \intersect steps)
      BY <2>5, <2>6, FS_Union
    <3>2. Cardinality({0, room} \intersect steps) \in Nat
      BY <2>6, FS_Subset, FS_CardinalityType
    <3>3. size \in Nat
      BY <3>1, FS_CardinalityType
    <3> HIDE DEF P
    <3> QED
      BY <2>1, <2>5, <2>6, <3>1, <3>2, <3>3
  <2>8. 0 \in P /\ room \in P /\ P \subseteq 0 .. room /\ P \subseteq Int
    BY <2>1, <2>4
  <2> HIDE DEF P
  <2>9. size # 0
    BY <2>7, <2>8, FS_EmptySet
  <2>10. /\ \A p, r \in P : p < r <=> Cardinality(Below(P, p)) < Cardinality(Below(P, r))
         /\ \A i \in 1 .. size : \E p \in P : Cardinality(Below(P, p)) = i - 1
    BY <2>7, <2>8, RanksAreAll
  <2>11. ASSUME NEW i \in 1 .. size
         PROVE  l[i] \in P /\ Cardinality(Below(P, l[i])) = i - 1
    <3>1. \E p \in P : Cardinality({q \in P : q < p}) = i - 1
      BY <2>10 DEF Below
    <3>2. At(i) \in P /\ Cardinality({q \in P : q < At(i)}) = i - 1
      BY <3>1
    <3> QED
      BY <3>2 DEF Below
  <2> HIDE DEF At, size
  <2>12. Len(l) = size /\ DOMAIN l = 1 .. size /\ l \in Seq(Int)
    <3>1. \A i \in 1 .. size : At(i) \in Int
      BY <2>8, <2>11
    <3>2. l \in Seq(Int)
      BY <2>7, <3>1
    <3> QED
      BY <2>7, <3>2
  <2> HIDE DEF l
  <2>13. ASSUME NEW i \in 1 .. size, NEW j \in 1 .. size, i < j PROVE l[i] < l[j]
    <3>1. i - 1 < j - 1
      BY <2>7, <2>13
    <3> QED
      BY <2>10, <2>11, <3>1
  <2>14. l[size] = room
    <3>1. size \in 1 .. size
      BY <2>7, <2>9
    <3>2. l[size] \in P /\ l[size] \in 0 .. room
      BY <2>8, <2>11, <3>1
    <3>3. ~(l[size] < room)
      <4> SUFFICES ASSUME l[size] < room PROVE FALSE
        OBVIOUS
      <4>1. Cardinality(Below(P, l[size])) < Cardinality(Below(P, room))
        BY <2>8, <2>10, <3>2
      <4>2. Cardinality(Below(P, l[size])) = size - 1
        BY <2>11, <3>1
      <4>3. Cardinality(Below(P, room)) \in Nat /\ Cardinality(Below(P, room)) < size
        <5>1. Below(P, room) \subseteq P /\ room \notin Below(P, room)
          BY <2>1 DEF Below
        <5> QED
          BY <2>7, <2>8, <5>1, FS_Subset, FS_CardinalityType DEF size
      <4> QED
        BY <2>7, <4>1, <4>2, <4>3
    <3> QED
      BY <3>2, <3>3
  <2>15. \A i \in 1 .. size : l[i] \in 0 .. room
    BY <2>8, <2>11
  <2> QED
    BY <2>3, <2>7, <2>9, <2>12, <2>13, <2>14, <2>15 DEF LadderFits
<1> QED
  BY <1>1, <1>2

\* The prices named are the first of the ladder, whatever was asked, and each
\* outcome tells where on the ladder it came.
HaggleInv ==
    /\ gap \in Int /\ moves \in Int
    /\ offers \in Seq(Int) /\ Len(offers) <= Len(Ladder)
    /\ \A i \in 1 .. Len(offers) : offers[i] = Ladder[i]
    /\ outcome = "counter" =>
        Len(offers) > 0 /\ (asked # NoAsk => asked \in Int /\ offers[Len(offers)] < asked)
    /\ outcome = "accepted" =>
        /\ asked \in Int
        /\ \/ Len(offers) > 0 /\ asked <= offers[Len(offers)]
           \/ Len(offers) < Len(Ladder) /\ asked <= Ladder[Len(offers) + 1]
    /\ outcome = "escalate" => Len(offers) = Len(Ladder)

\* No price is named at first.
LEMMA InitHaggleInv == NegotiationInit => HaggleInv
<1> SUFFICES ASSUME NegotiationInit PROVE HaggleInv
  OBVIOUS
<1>1. gap \in Int /\ moves \in Int /\ offers = <<>> /\ outcome = "none"
  BY NegotiationAssumption DEF NegotiationInit
<1>2. Len(Ladder) >= 1 /\ Ladder \in Seq(Int)
  BY <1>1, LaddersFit DEF LadderFits, Ladder
<1> QED
  BY <1>1, <1>2 DEF HaggleInv

\* next_step takes the ask, names the ladder's next price, or hands over.
LEMMA NextHaggleInv == HaggleInv /\ [NegotiationNext]_haggleVars => HaggleInv'
<1> SUFFICES ASSUME HaggleInv, [NegotiationNext]_haggleVars PROVE HaggleInv'
  OBVIOUS
<1>1. CASE UNCHANGED haggleVars
  <2>1. gap' = gap /\ moves' = moves /\ offers' = offers /\ asked' = asked /\ outcome' = outcome
    BY <1>1 DEF haggleVars
  <2>2. Ladder' = Ladder
    BY <2>1 DEF Ladder
  <2> QED
    BY <2>1, <2>2 DEF HaggleInv
<1>2. ASSUME NEW ask \in Asks \union {NoAsk}, NextStep(ask) PROVE HaggleInv'
  <2>1. gap' = gap /\ moves' = moves /\ asked' = ask /\ gap \in Int /\ moves \in Int
    BY <1>2 DEF NextStep, HaggleInv
  <2>2. Ladder' = Ladder
    BY <2>1 DEF Ladder
  <2>3. Ladder \in Seq(Int) /\ Len(Ladder) \in Nat /\ offers \in Seq(Int) /\ Len(offers) \in Nat
    <3>1. LadderFits(gap, moves, Ladder)
      BY <2>1, LaddersFit DEF Ladder
    <3> QED
      BY <3>1 DEF LadderFits, HaggleInv
  <2>4. ask # NoAsk => ask \in Int
    BY NegotiationAssumption
  <2> DEFINE taken == offers # <<>> /\ Takes(ask, offers[Len(offers)])
             left == Len(offers) < Len(Ladder)
             candidate == Ladder[Len(offers) + 1]
  <2>5. CASE (taken \/ (left /\ Takes(ask, candidate))) /\ outcome' = "accepted" /\ UNCHANGED offers
    BY <2>1, <2>2, <2>3, <2>4, <2>5 DEF Takes, HaggleInv
  <2>6. CASE ~taken /\ left /\ ~Takes(ask, candidate) /\ outcome' = "counter" /\ offers' = Append(offers, candidate)
    <3>1. candidate \in Int
      BY <2>3, <2>6
    <3>2. offers' \in Seq(Int) /\ Len(offers') = Len(offers) + 1 /\ offers'[Len(offers) + 1] = candidate
          /\ \A i \in 1 .. Len(offers) : offers'[i] = offers[i]
      BY <2>3, <2>6, <3>1
    <3>3. ask # NoAsk => candidate < ask
      BY <2>4, <2>6, <3>1 DEF Takes
    <3> HIDE DEF candidate
    <3>4. \A i \in 1 .. Len(offers') : offers'[i] = Ladder[i]
      <4>1. ASSUME NEW i \in 1 .. Len(offers') PROVE offers'[i] = Ladder[i]
        <5>1. i \in 1 .. Len(offers) \/ i = Len(offers) + 1
          BY <2>3, <3>2
        <5>2. \A j \in 1 .. Len(offers) : offers[j] = Ladder[j]
          BY DEF HaggleInv
        <5> QED
          BY <3>2, <5>1, <5>2 DEF candidate
      <4> QED
        BY <4>1
    <3> QED
      BY <2>1, <2>2, <2>3, <2>4, <2>6, <3>1, <3>2, <3>3, <3>4 DEF HaggleInv
  <2>7. CASE ~taken /\ ~left /\ outcome' = "escalate" /\ UNCHANGED offers
    BY <2>1, <2>2, <2>3, <2>7 DEF HaggleInv
  <2> QED
    BY <1>2, <2>5, <2>6, <2>7 DEF NextStep
<1> QED
  BY <1>1, <1>2 DEF NegotiationNext

\* What was named of the ladder is in the band, as the ladder is.
LEMMA HaggleInvTells == HaggleInv => PricesStayInBand
<1> SUFFICES ASSUME HaggleInv, gap >= 0
    PROVE  /\ Len(offers) <= 1 \/ Len(offers) <= moves + 1
           /\ \A i \in DOMAIN offers : offers[i] \in 0 .. gap /\ (i > 1 => offers[i] > offers[i - 1])
           /\ outcome = "counter" => (asked # NoAsk => offers[Len(offers)] < asked)
           /\ outcome = "accepted" =>
               /\ asked <= gap
               /\ \/ asked <= Ladder[1] \/ asked <= offers[Len(offers)]
                  \/ Len(offers) < Len(Ladder) /\ asked <= Ladder[Len(offers) + 1]
           /\ outcome = "escalate" =>
               offers # <<>> /\ (moves > 0 => offers[Len(offers)] = gap)
  BY DEF PricesStayInBand
<1>1. LadderFits(gap, moves, Ladder)
  BY LaddersFit DEF HaggleInv, Ladder
<1>2. /\ Ladder \in Seq(Int) /\ Len(Ladder) \in Nat /\ offers \in Seq(Int) /\ Len(offers) \in Nat
      /\ DOMAIN offers = 1 .. Len(offers) /\ Len(offers) <= Len(Ladder) /\ gap \in Int /\ moves \in Int
      /\ Len(Ladder) >= 1 /\ (Len(Ladder) <= 1 \/ Len(Ladder) <= moves + 1)
  BY <1>1 DEF HaggleInv, LadderFits
<1>3. \A i \in 1 .. Len(Ladder) : Ladder[i] \in 0 .. gap
  BY <1>1 DEF LadderFits
<1>4. Len(offers) <= 1 \/ Len(offers) <= moves + 1
  BY <1>2
<1>5. ASSUME NEW i \in DOMAIN offers PROVE offers[i] \in 0 .. gap /\ (i > 1 => offers[i] > offers[i - 1])
  <2>1. i \in 1 .. Len(Ladder) /\ offers[i] = Ladder[i]
    BY <1>2 DEF HaggleInv
  <2>2. ASSUME i > 1 PROVE offers[i] > offers[i - 1]
    <3>1. i - 1 \in 1 .. Len(offers) /\ i - 1 \in 1 .. Len(Ladder) /\ i - 1 < i
      BY <1>2, <2>1, <2>2
    <3>2. offers[i - 1] = Ladder[i - 1]
      BY <3>1 DEF HaggleInv
    <3>3. Ladder[i - 1] < Ladder[i]
      BY <1>1, <2>1, <3>1 DEF LadderFits
    <3> QED
      BY <1>3, <2>1, <3>1, <3>2, <3>3
  <2> QED
    BY <1>3, <2>1, <2>2
<1>6. outcome = "counter" => (asked # NoAsk => offers[Len(offers)] < asked)
  BY DEF HaggleInv
<1>7. ASSUME outcome = "accepted"
      PROVE  /\ asked <= gap
             /\ \/ asked <= Ladder[1] \/ asked <= offers[Len(offers)]
                \/ Len(offers) < Len(Ladder) /\ asked <= Ladder[Len(offers) + 1]
  <2>1. CASE Len(offers) > 0 /\ asked <= offers[Len(offers)]
    <3>1. Len(offers) \in DOMAIN offers
      BY <1>2, <2>1
    <3>2. offers[Len(offers)] \in 0 .. gap
      BY <1>5, <3>1
    <3> QED
      BY <1>2, <1>7, <2>1, <3>2 DEF HaggleInv
  <2>2. CASE Len(offers) < Len(Ladder) /\ asked <= Ladder[Len(offers) + 1]
    <3>1. Len(offers) + 1 \in 1 .. Len(Ladder)
      BY <1>2, <2>2
    <3>2. Ladder[Len(offers) + 1] \in 0 .. gap
      BY <1>3, <3>1
    <3> QED
      BY <1>2, <1>7, <2>2, <3>2 DEF HaggleInv
  <2> QED
    BY <1>7, <2>1, <2>2 DEF HaggleInv
<1>8. ASSUME outcome = "escalate" PROVE offers # <<>> /\ (moves > 0 => offers[Len(offers)] = gap)
  <2>1. Len(offers) = Len(Ladder) /\ Len(offers) \in 1 .. Len(offers)
    BY <1>2, <1>8 DEF HaggleInv
  <2>2. offers[Len(offers)] = Ladder[Len(Ladder)]
    BY <2>1 DEF HaggleInv
  <2> QED
    BY <1>1, <1>2, <2>1, <2>2 DEF LadderFits
<1> QED
  BY <1>4, <1>5, <1>6, <1>7, <1>8

\* ladder and next_step: for any band, any number of concessions and whatever is asked,
\* the prices named go up inside the band and end at its limit.
THEOREM PricesAlwaysStayInBand == NegotiationSpec => []PricesStayInBand
<1>1. NegotiationInit => HaggleInv
  BY InitHaggleInv
<1>2. HaggleInv /\ [NegotiationNext]_haggleVars => HaggleInv'
  BY NextHaggleInv
<1>3. HaggleInv => PricesStayInBand
  BY HaggleInvTells
<1> QED
  BY <1>1, <1>2, <1>3, PTL DEF NegotiationSpec

-----------------------------------------------------------------------------
(* Periods. *)

\* What grows with each step grows with many.
LEMMA GrowsByStep ==
    ASSUME NEW a \in Nat, NEW b \in Nat, NEW f, \A i \in a .. b : f[i] \in Int,
           \A i \in a .. b : i + 1 \in a .. b => f[i] <= f[i + 1]
    PROVE  \A i, j \in a .. b : i <= j => f[i] <= f[j]
<1> DEFINE T == {k \in Nat : \E i \in a .. b : i + k \in a .. b /\ ~(f[i] <= f[i + k])}
<1>1. T = {}
  <2> SUFFICES ASSUME T # {} PROVE FALSE
    OBVIOUS
  <2>1. PICK k \in T : \A m \in T : k <= m
    <3>1. T \subseteq Nat
      OBVIOUS
    <3> HIDE DEF T
    <3> QED
      BY <3>1, LeastNatural
  <2>2. PICK i \in a .. b : k \in Nat /\ i + k \in a .. b /\ ~(f[i] <= f[i + k])
    OBVIOUS
  <2>3. k # 0
    BY <2>2
  <2>4. k - 1 \in Nat /\ i + (k - 1) \in a .. b /\ (i + (k - 1)) + 1 = i + k
    BY <2>2, <2>3
  <2>5. f[i + (k - 1)] <= f[i + k]
    BY <2>2, <2>4
  <2>6. f[i] <= f[i + (k - 1)]
    <3>1. k - 1 \notin T
      <4>1. ~(k <= k - 1)
        BY <2>2
      <4> HIDE DEF T
      <4> QED
        BY <2>1, <4>1
    <3> QED
      BY <2>4, <3>1
  <2> QED
    BY <2>2, <2>4, <2>5, <2>6
<1>2. ASSUME NEW i \in a .. b, NEW j \in a .. b, i <= j PROVE f[i] <= f[j]
  <2>1. j - i \in Nat /\ i + (j - i) = j
    BY <1>2
  <2> QED
    BY <1>1, <2>1
<1> QED
  BY <1>2

\* The greater and the lesser of two.
LEMMA PairIs ==
    ASSUME NEW a \in Int, NEW b \in Int
    PROVE  /\ Max({a, b}) \in {a, b} /\ Max({a, b}) >= a /\ Max({a, b}) >= b
           /\ Min({a, b}) \in {a, b} /\ Min({a, b}) <= a /\ Min({a, b}) <= b
<1>1. \E x \in {a, b} : \A y \in {a, b} : x >= y
  OBVIOUS
<1>2. \E x \in {a, b} : \A y \in {a, b} : x <= y
  OBVIOUS
<1>3. Max({a, b}) \in {a, b} /\ \A y \in {a, b} : Max({a, b}) >= y
  BY <1>1 DEF Max
<1>4. Min({a, b}) \in {a, b} /\ \A y \in {a, b} : Min({a, b}) <= y
  BY <1>2 DEF Min
<1> QED
  BY <1>3, <1>4

\* The last of some places where something is so, and the first place.
LEMMA LastWhere ==
    ASSUME NEW n \in Nat, NEW S \in SUBSET (2 .. n), n >= 1
    PROVE  /\ Max({1} \union S) \in 1 .. n
           /\ Max({1} \union S) # 1 => Max({1} \union S) \in S
           /\ \A k \in S : k <= Max({1} \union S)
<1> DEFINE T == {1} \union S
<1>1. T \subseteq Nat /\ T # {} /\ T \subseteq 1 .. n /\ \A m \in T : m <= n
  OBVIOUS
<1>2. Max(T) \in T /\ \A m \in T : m <= Max(T)
  <2> HIDE DEF T
  <2> QED
    BY <1>1, MaxIs
<1> QED
  BY <1>1, <1>2

Changes(z) == 2 .. Len(Offsets[z])
From(z, i) == Offsets[z][i].from
Off(z, i) == Offsets[z][i].offset

\* A zone's changes, one after another.
LEMMA ZoneIs ==
    ASSUME NEW z \in Zones
    PROVE  /\ Len(Offsets[z]) \in Nat /\ Len(Offsets[z]) >= 1
           /\ \A i \in 1 .. Len(Offsets[z]) : From(z, i) \in Int /\ Off(z, i) \in Int
           /\ \A i \in Changes(z) :
                /\ LocalChange(z, i) \in Int /\ LocalReturn(z, i) \in Int /\ LocalReturn(z, i) <= LocalChange(z, i)
                /\ From(z, i) + Off(z, i) <= LocalChange(z, i) /\ LocalReturn(z, i) <= From(z, i) + Off(z, i)
                /\ From(z, i) + Off(z, i - 1) <= LocalChange(z, i) /\ LocalReturn(z, i) <= From(z, i) + Off(z, i - 1)
<1>1. Offsets[z] \in Seq([from : Int, offset : Int]) /\ Offsets[z] # <<>>
  BY ZonesAssumption
<1>2. Len(Offsets[z]) \in Nat /\ Len(Offsets[z]) >= 1
  BY <1>1
<1>3. \A i \in 1 .. Len(Offsets[z]) : Offsets[z][i] \in [from : Int, offset : Int]
  <2>1. ASSUME NEW R, NEW s \in Seq(R), NEW i \in 1 .. Len(s) PROVE s[i] \in R
    OBVIOUS
  <2> QED
    BY <1>1, <2>1
<1>4. \A i \in 1 .. Len(Offsets[z]) : From(z, i) \in Int /\ Off(z, i) \in Int
  BY <1>3 DEF From, Off
<1>5. ASSUME NEW i \in Changes(z)
      PROVE  /\ LocalChange(z, i) \in Int /\ LocalReturn(z, i) \in Int /\ LocalReturn(z, i) <= LocalChange(z, i)
             /\ From(z, i) + Off(z, i) <= LocalChange(z, i) /\ LocalReturn(z, i) <= From(z, i) + Off(z, i)
             /\ From(z, i) + Off(z, i - 1) <= LocalChange(z, i) /\ LocalReturn(z, i) <= From(z, i) + Off(z, i - 1)
  <2>1. i \in 1 .. Len(Offsets[z]) /\ i - 1 \in 1 .. Len(Offsets[z])
    BY <1>2 DEF Changes
  <2>2. From(z, i) \in Int /\ Off(z, i) \in Int /\ Off(z, i - 1) \in Int
    BY <1>4, <2>1
  <2> DEFINE hi == Max({Off(z, i - 1), Off(z, i)})
             lo == Min({Off(z, i - 1), Off(z, i)})
  <2>3. hi \in {Off(z, i - 1), Off(z, i)} /\ hi >= Off(z, i - 1) /\ hi >= Off(z, i)
    BY <2>2, PairIs
  <2>4. lo \in {Off(z, i - 1), Off(z, i)} /\ lo <= Off(z, i - 1) /\ lo <= Off(z, i)
    BY <2>2, PairIs
  <2>5. LocalChange(z, i) = From(z, i) + hi /\ LocalReturn(z, i) = From(z, i) + lo
    BY DEF LocalChange, LocalReturn, From, Off
  <2> HIDE DEF hi, lo
  <2> QED
    BY <2>2, <2>3, <2>4, <2>5
<1> QED
  BY <1>2, <1>4, <1>5

\* Of two changes the later one is later by every clock.
LEMMA ZoneGrows ==
    ASSUME NEW z \in Zones, NEW i \in Changes(z), NEW j \in Changes(z), i <= j
    PROVE  /\ LocalChange(z, i) <= LocalChange(z, j)
           /\ LocalReturn(z, i) <= LocalReturn(z, j)
           /\ From(z, i) <= From(z, j)
<1> DEFINE n == Len(Offsets[z])
<1>1. n \in Nat /\ \A k \in 2 .. n : /\ LocalChange(z, k) \in Int /\ LocalReturn(z, k) \in Int /\ From(z, k) \in Int
                                      /\ Off(z, k) \in Int /\ Off(z, k - 1) \in Int
  <2>1. \A k \in 2 .. n : k \in 1 .. n /\ k - 1 \in 1 .. n
    BY ZoneIs
  <2> QED
    BY <2>1, ZoneIs DEF Changes
<1>2. ASSUME NEW k \in 2 .. n, k + 1 \in 2 .. n
      PROVE  /\ LocalChange(z, k) <= LocalChange(z, k + 1) /\ LocalReturn(z, k) <= LocalReturn(z, k + 1)
             /\ From(z, k) <= From(z, k + 1)
  <2>1. LocalChange(z, k) <= LocalReturn(z, k + 1)
    <3>1. k < n
      BY <1>1, <1>2
    <3> QED
      BY <3>1, ZonesAssumption
  <2>2. k \in Changes(z) /\ k + 1 \in Changes(z)
    BY <1>2 DEF Changes
  <2>3. /\ LocalReturn(z, k) <= LocalChange(z, k) /\ LocalReturn(z, k + 1) <= LocalChange(z, k + 1)
        /\ From(z, k) + Off(z, k) <= LocalChange(z, k)
    BY <2>2, ZoneIs
  <2>4. LocalReturn(z, k + 1) <= From(z, k + 1) + Off(z, k)
    <3>1. LocalReturn(z, k + 1) <= From(z, k + 1) + Off(z, (k + 1) - 1)
      BY <2>2, ZoneIs
    <3>2. (k + 1) - 1 = k
      BY <1>2
    <3> QED
      BY <3>1, <3>2
  <2>5. /\ LocalChange(z, k) \in Int /\ LocalReturn(z, k) \in Int /\ From(z, k) \in Int /\ Off(z, k) \in Int
        /\ LocalChange(z, k + 1) \in Int /\ LocalReturn(z, k + 1) \in Int /\ From(z, k + 1) \in Int
    BY <1>1, <1>2
  <2> HIDE DEF n
  <2>6. LocalChange(z, k) <= LocalChange(z, k + 1) /\ LocalReturn(z, k) <= LocalReturn(z, k + 1)
    BY <2>1, <2>3, <2>5
  <2>7. From(z, k) <= From(z, k + 1)
    BY <2>1, <2>3, <2>4, <2>5
  <2> QED
    BY <2>6, <2>7
<1> DEFINE change == [k \in 2 .. n |-> LocalChange(z, k)]
           return == [k \in 2 .. n |-> LocalReturn(z, k)]
           from == [k \in 2 .. n |-> From(z, k)]
<1>3. i \in 2 .. n /\ j \in 2 .. n
  BY DEF Changes
<1>4. change[i] <= change[j]
  <2>1. (\A k \in 2 .. n : change[k] \in Int) /\ \A k \in 2 .. n : k + 1 \in 2 .. n => change[k] <= change[k + 1]
    BY <1>1, <1>2
  <2> HIDE DEF change
  <2> QED
    BY <1>1, <1>3, <2>1, GrowsByStep
<1>5. return[i] <= return[j]
  <2>1. (\A k \in 2 .. n : return[k] \in Int) /\ \A k \in 2 .. n : k + 1 \in 2 .. n => return[k] <= return[k + 1]
    BY <1>1, <1>2
  <2> HIDE DEF return
  <2> QED
    BY <1>1, <1>3, <2>1, GrowsByStep
<1>6. from[i] <= from[j]
  <2>1. (\A k \in 2 .. n : from[k] \in Int) /\ \A k \in 2 .. n : k + 1 \in 2 .. n => from[k] <= from[k + 1]
    BY <1>1, <1>2
  <2> HIDE DEF from
  <2> QED
    BY <1>1, <1>3, <2>1, GrowsByStep
<1> QED
  BY <1>3, <1>4, <1>5, <1>6

\* An instant is of a day or a later one, by the clock, once that day has begun.
LEMMA DayBegins ==
    ASSUME NEW z \in Zones, NEW day \in Int, NEW now \in Int
    PROVE  /\ StartOfDay(z, day) \in Int
           /\ Off(z, OffsetAt(z, now)) \in Int
           /\ StartOfDay(z, day) <= now <=> day * DAY <= now + Off(z, OffsetAt(z, now))
<1> DEFINE n == Len(Offsets[z])
           i == OffsetAt(z, now)
           j == AtLocal(z, day * DAY)
           time == day * DAY
<1>1. n \in Nat /\ n >= 1 /\ time \in Int
  BY ZoneIs DEF DAY
<1>2. i \in 1 .. n /\ (i # 1 => From(z, i) <= now) /\ \A k \in 2 .. n : From(z, k) <= now => k <= i
  <2> DEFINE S == {k \in 2 .. n : From(z, k) <= now}
  <2>1. i = Max({1} \union S)
    BY DEF OffsetAt, From
  <2>2. S \in SUBSET (2 .. n)
    OBVIOUS
  <2>3. i \in 1 .. n /\ (i # 1 => i \in S) /\ \A k \in S : k <= i
    <3> HIDE DEF S, n, i
    <3> QED
      BY <1>1, <2>1, <2>2, LastWhere
  <2> HIDE DEF i
  <2> QED
    BY <2>3
<1>3. j \in 1 .. n /\ (j # 1 => LocalChange(z, j) <= time) /\ \A k \in 2 .. n : LocalChange(z, k) <= time => k <= j
  <2> DEFINE S == {k \in 2 .. n : LocalChange(z, k) <= time}
  <2>1. j = Max({1} \union S)
    BY DEF AtLocal
  <2>2. S \in SUBSET (2 .. n)
    OBVIOUS
  <2>3. j \in 1 .. n /\ (j # 1 => j \in S) /\ \A k \in S : k <= j
    <3> HIDE DEF S, n, j
    <3> QED
      BY <1>1, <2>1, <2>2, LastWhere
  <2> HIDE DEF j
  <2> QED
    BY <2>3
<1>4. StartOfDay(z, day) = time - Off(z, j)
  BY DEF StartOfDay, Off
<1> HIDE DEF i, j, time
<1>5. Off(z, i) \in Int /\ Off(z, j) \in Int /\ From(z, i) \in Int /\ From(z, j) \in Int
  BY <1>2, <1>3, ZoneIs
<1>6. CASE i = j
  BY <1>1, <1>4, <1>5, <1>6 DEF i, time
<1>7. CASE i < j
  <2>1. j \in Changes(z) /\ i + 1 \in Changes(z) /\ i + 1 <= j
    BY <1>1, <1>2, <1>3, <1>7 DEF Changes
  <2>2. ~(From(z, j) <= now) /\ ~(From(z, i + 1) <= now) /\ LocalChange(z, j) <= time
    BY <1>2, <1>3, <1>7, <2>1 DEF Changes
  <2>3. From(z, j) + Off(z, j) <= LocalChange(z, j) /\ LocalChange(z, j) \in Int
    BY <2>1, ZoneIs
  <2>4. From(z, i + 1) + Off(z, i) <= LocalChange(z, i + 1) /\ LocalChange(z, i + 1) \in Int /\ From(z, i + 1) \in Int
    <3>1. From(z, i + 1) + Off(z, (i + 1) - 1) <= LocalChange(z, i + 1) /\ LocalChange(z, i + 1) \in Int
      BY <2>1, ZoneIs
    <3>2. (i + 1) - 1 = i /\ i + 1 \in 1 .. n
      BY <1>1, <1>2, <1>3, <1>7
    <3> QED
      BY <3>1, <3>2, ZoneIs
  <2>5. LocalChange(z, i + 1) <= LocalChange(z, j)
    BY <2>1, ZoneGrows
  <2> QED
    BY <1>1, <1>4, <1>5, <2>2, <2>3, <2>4, <2>5 DEF i, time
<1>8. CASE j < i
  <2>1. i \in Changes(z) /\ j + 1 \in Changes(z) /\ j + 1 <= i
    BY <1>1, <1>2, <1>3, <1>8 DEF Changes
  <2>2. From(z, i) <= now
    BY <1>2, <1>3, <1>8
  <2>3. ~(LocalChange(z, j + 1) <= time)
    BY <1>2, <1>3, <1>8, <2>1 DEF Changes
  <2>4. /\ LocalReturn(z, j + 1) <= From(z, j + 1) + Off(z, j) /\ LocalReturn(z, j + 1) \in Int
        /\ LocalChange(z, j + 1) \in Int /\ From(z, j + 1) \in Int
    <3>1. /\ LocalReturn(z, j + 1) <= From(z, j + 1) + Off(z, (j + 1) - 1) /\ LocalReturn(z, j + 1) \in Int
          /\ LocalChange(z, j + 1) \in Int
      BY <2>1, ZoneIs
    <3>2. (j + 1) - 1 = j /\ j + 1 \in 1 .. n
      BY <1>1, <1>2, <1>3, <1>8
    <3> QED
      BY <3>1, <3>2, ZoneIs
  <2>5. LocalReturn(z, i) <= From(z, i) + Off(z, i) /\ LocalReturn(z, i) \in Int
    BY <2>1, ZoneIs
  <2>6. LocalReturn(z, j + 1) <= LocalReturn(z, i) /\ From(z, j + 1) <= From(z, i)
    BY <2>1, ZoneGrows
  <2>7. time <= LocalReturn(z, j + 1)
    <3>1. ((LocalChange(z, j + 1) - 1) \div DAY) * DAY <= LocalReturn(z, j + 1)
      BY <2>1, ZonesAssumption DEF Changes
    <3>2. day <= (LocalChange(z, j + 1) - 1) \div DAY
      BY <2>3, <2>4 DEF time, DAY
    <3> QED
      BY <2>4, <3>1, <3>2 DEF time, DAY
  <2> QED
    BY <1>1, <1>4, <1>5, <2>2, <2>4, <2>5, <2>6, <2>7 DEF i, time
<1>9. i \in Int /\ j \in Int
  BY <1>2, <1>3
<1> QED
  BY <1>6, <1>7, <1>8, <1>9

\* So days begin in order, and today is the day that has begun and not ended.
LEMMA DaysAreInOrder ==
    ASSUME NEW z \in Zones, NEW a \in Int, NEW b \in Int, a <= b
    PROVE  StartOfDay(z, a) <= StartOfDay(z, b)
<1> DEFINE now == StartOfDay(z, b)
<1>1. now \in Int
  <2>1. 0 \in Int
    OBVIOUS
  <2> QED
    BY <2>1, DayBegins
<1>2. b * DAY <= now + Off(z, OffsetAt(z, now)) /\ Off(z, OffsetAt(z, now)) \in Int
  BY <1>1, DayBegins
<1>3. a * DAY <= b * DAY /\ a * DAY \in Int /\ b * DAY \in Int
  BY DEF DAY
<1>4. a * DAY <= now + Off(z, OffsetAt(z, now))
  BY <1>1, <1>2, <1>3
<1> QED
  BY <1>1, <1>4, DayBegins

\* business_today is the one day that has begun and not ended.
LEMMA TodayIs ==
    ASSUME NEW z \in Zones, NEW now \in Int
    PROVE  /\ BusinessToday(z, now) \in Int
           /\ \A day \in Int : StartOfDay(z, day) <= now <=> day <= BusinessToday(z, now)
           /\ \A day \in Int : now < EndOfDay(z, day) <=> BusinessToday(z, now) <= day
<1> DEFINE local == now + Off(z, OffsetAt(z, now))
<1>1. local \in Int
  <2>1. 0 \in Int
    OBVIOUS
  <2> QED
    BY <2>1, DayBegins
<1>2. BusinessToday(z, now) = local \div DAY
  BY DEF BusinessToday, Off
<1>3. ASSUME NEW day \in Int PROVE StartOfDay(z, day) <= now <=> day <= local \div DAY
  <2>1. StartOfDay(z, day) <= now <=> day * DAY <= local
    BY DayBegins
  <2> HIDE DEF local
  <2> QED
    BY <1>1, <2>1 DEF DAY
<1>4. ASSUME NEW day \in Int PROVE now < EndOfDay(z, day) <=> local \div DAY <= day
  <2>1. StartOfDay(z, day + 1) \in Int /\ day + 1 \in Int
    BY DayBegins
  <2>2. StartOfDay(z, day + 1) <= now <=> day + 1 <= local \div DAY
    BY <1>3
  <2>3. local \div DAY \in Int
    BY <1>1 DEF DAY
  <2> HIDE DEF local
  <2> QED
    BY <2>1, <2>2, <2>3 DEF EndOfDay
<1>5. local \div DAY \in Int
  BY <1>1 DEF DAY
<1> HIDE DEF local
<1> QED
  BY <1>2, <1>3, <1>4, <1>5

\* A month begins where the one before ends.
Begins(starts, m) == IF m = 1 THEN 0 ELSE starts[m - 1] + MonthLengths[m - 1]

\* A calendar of any number of months can be written down, one month after another.
LEMMA MonthStartsExist ==
    ASSUME NEW n \in Nat
    PROVE  \E starts : starts = [m \in 1 .. n |-> Begins(starts, m)]
<1> DEFINE Q(k) == \E starts : starts = [m \in 1 .. k |-> Begins(starts, m)]
           T == {k \in Nat : ~Q(k)}
<1>1. T = {}
  <2> SUFFICES ASSUME T # {} PROVE FALSE
    OBVIOUS
  <2>1. PICK k \in T : \A j \in T : k <= j
    <3>1. T \subseteq Nat
      OBVIOUS
    <3> HIDE DEF T
    <3> QED
      BY <3>1, LeastNatural
  <2>2. k \in Nat /\ ~Q(k)
    OBVIOUS
  <2>3. k # 0
    <3> DEFINE none == [m \in {} |-> 0]
    <3>1. 1 .. 0 = {}
      OBVIOUS
    <3>2. none = [m \in 1 .. 0 |-> Begins(none, m)]
      BY <3>1
    <3>3. Q(0)
      BY <3>2
    <3> QED
      BY <2>2, <3>3
  <2>4. Q(k - 1)
    <3>1. k - 1 \in Nat /\ ~(k <= k - 1)
      BY <2>2, <2>3
    <3>2. k - 1 \notin T
      <4> HIDE DEF T
      <4> QED
        BY <2>1, <3>1
    <3> QED
      BY <3>1, <3>2
  <2>5. PICK starts : starts = [m \in 1 .. k - 1 |-> Begins(starts, m)]
    BY <2>4
  <2> DEFINE more == [m \in 1 .. k |-> Begins(starts, m)]
  <2>6. \A m \in 1 .. k - 1 : more[m] = starts[m]
    BY <2>2, <2>5
  <2>7. ASSUME NEW m \in 1 .. k PROVE Begins(starts, m) = Begins(more, m)
    <3>1. CASE m = 1
      BY <3>1 DEF Begins
    <3>2. CASE m # 1
      <4>1. m - 1 \in 1 .. k - 1
        BY <2>2, <3>2
      <4>2. more[m - 1] = starts[m - 1]
        BY <2>6, <4>1
      <4> HIDE DEF more
      <4> QED
        BY <4>2 DEF Begins
    <3> QED
      BY <3>1, <3>2
  <2>8. more = [m \in 1 .. k |-> Begins(more, m)]
    BY <2>7
  <2> QED
    BY <2>2, <2>8
<1> QED
  BY <1>1

\* The number of the calendar's last month.
LastMonth == Len(MonthLengths)

\* What the calendar's lengths are.
LEMMA MonthsAre ==
    /\ LastMonth \in Nat /\ LastMonth >= 3 /\ LastMonth % 3 = 0
    /\ DOMAIN MonthLengths = 1 .. LastMonth
    /\ \A m \in 1 .. LastMonth : MonthLengths[m] \in Nat \ {0}
<1>1. MonthLengths \in Seq(Nat \ {0}) /\ Len(MonthLengths) >= 3 /\ Len(MonthLengths) % 3 = 0
  BY CalendarAssumption
<1>2. ASSUME NEW R, NEW s \in Seq(R) PROVE Len(s) \in Nat /\ DOMAIN s = 1 .. Len(s) /\ \A i \in 1 .. Len(s) : s[i] \in R
  OBVIOUS
<1> QED
  BY <1>1, <1>2 DEF LastMonth

\* So the months begin one after another, the first one on the first day.
LEMMA MonthStartsAre ==
    /\ MonthStarts[1] = 0
    /\ \A m \in 1 .. LastMonth : MonthStarts[m + 1] = MonthStarts[m] + MonthLengths[m]
    /\ \A m \in 1 .. LastMonth + 1 : MonthStarts[m] \in Nat
<1> DEFINE E(g) == g = [m \in 1 .. Len(MonthLengths) + 1 |-> IF m = 1 THEN 0 ELSE g[m - 1] + MonthLengths[m - 1]]
<1>1. MonthStarts = CHOOSE g : E(g)
  BY DEF MonthStarts
<1>2. \E g : E(g)
  <2>1. LastMonth + 1 \in Nat
    BY MonthsAre
  <2>2. PICK g : g = [m \in 1 .. LastMonth + 1 |-> Begins(g, m)]
    BY <2>1, MonthStartsExist
  <2>3. E(g)
    BY <2>2 DEF Begins, LastMonth
  <2> QED
    BY <2>3
<1>3. E(MonthStarts)
  <2> HIDE DEF E
  <2> QED
    BY <1>1, <1>2
<1>4. \A m \in 1 .. LastMonth + 1 : MonthStarts[m] = IF m = 1 THEN 0 ELSE MonthStarts[m - 1] + MonthLengths[m - 1]
  BY <1>3 DEF LastMonth
<1>5. MonthStarts[1] = 0
  <2>1. 1 \in 1 .. LastMonth + 1
    BY MonthsAre
  <2> QED
    BY <1>4, <2>1
<1>6. ASSUME NEW m \in 1 .. LastMonth PROVE MonthStarts[m + 1] = MonthStarts[m] + MonthLengths[m]
  <2>1. m + 1 \in 1 .. LastMonth + 1 /\ m + 1 # 1 /\ (m + 1) - 1 = m
    BY MonthsAre
  <2> QED
    BY <1>4, <2>1
<1> DEFINE T == {m \in 1 .. LastMonth + 1 : MonthStarts[m] \notin Nat}
<1>7. T = {}
  <2> SUFFICES ASSUME T # {} PROVE FALSE
    OBVIOUS
  <2>1. PICK m \in T : \A k \in T : m <= k
    <3>1. T \subseteq Nat
      OBVIOUS
    <3> HIDE DEF T
    <3> QED
      BY <3>1, LeastNatural
  <2>2. m \in 1 .. LastMonth + 1 /\ MonthStarts[m] \notin Nat /\ m # 1
    BY <1>5
  <2>3. m - 1 \in 1 .. LastMonth /\ (m - 1) + 1 = m /\ ~(m <= m - 1)
    BY <2>2, MonthsAre
  <2>4. MonthStarts[m - 1] \in Nat
    <3>1. m - 1 \notin T
      <4> HIDE DEF T
      <4> QED
        BY <2>1, <2>3
    <3>2. m - 1 \in 1 .. LastMonth + 1
      BY <2>3, MonthsAre
    <3> QED
      BY <3>1, <3>2
  <2> QED
    BY <1>6, <2>2, <2>3, <2>4, MonthsAre
<1> QED
  BY <1>5, <1>6, <1>7

\* A later month begins later.
LEMMA MonthsGrow ==
    ASSUME NEW m \in 1 .. LastMonth + 1, NEW k \in 1 .. LastMonth + 1, m < k
    PROVE  MonthStarts[m] < MonthStarts[k]
<1>1. LastMonth + 1 \in Nat /\ \A i \in 1 .. LastMonth + 1 : MonthStarts[i] \in Int
  BY MonthsAre, MonthStartsAre
<1>2. ASSUME NEW i \in 1 .. LastMonth PROVE MonthStarts[i] < MonthStarts[i + 1]
  <2>1. i \in 1 .. LastMonth + 1
    BY MonthsAre
  <2> QED
    BY <2>1, MonthsAre, MonthStartsAre
<1>3. \A i \in 1 .. LastMonth + 1 : i + 1 \in 1 .. LastMonth + 1 => MonthStarts[i] <= MonthStarts[i + 1]
  <2> SUFFICES ASSUME NEW i \in 1 .. LastMonth + 1, i + 1 \in 1 .. LastMonth + 1
               PROVE  MonthStarts[i] <= MonthStarts[i + 1]
    OBVIOUS
  <2>1. i \in 1 .. LastMonth
    BY MonthsAre
  <2> QED
    BY <1>1, <1>2, <2>1
<1>4. m \in 1 .. LastMonth /\ m + 1 \in 1 .. LastMonth + 1 /\ m + 1 <= k
  BY MonthsAre
<1>5. MonthStarts[m + 1] <= MonthStarts[k]
  <2> DEFINE top == LastMonth + 1
  <2>1. /\ 1 \in Nat /\ top \in Nat /\ m + 1 \in 1 .. top /\ k \in 1 .. top /\ m + 1 <= k
        /\ \A i \in 1 .. top : MonthStarts[i] \in Int
        /\ \A i \in 1 .. top : i + 1 \in 1 .. top => MonthStarts[i] <= MonthStarts[i + 1]
    BY <1>1, <1>3, <1>4
  <2> HIDE DEF top
  <2> QED
    BY <2>1, GrowsByStep
<1> QED
  BY <1>1, <1>2, <1>4, <1>5

\* The month of a day of the calendar, and the only one the day can be of.
LEMMA MonthOfIs ==
    ASSUME NEW day \in 0 .. MonthStarts[LastMonth + 1] - 1
    PROVE  /\ MonthOf(day) \in 1 .. LastMonth
           /\ MonthStarts[MonthOf(day)] <= day /\ day < MonthStarts[MonthOf(day) + 1]
           /\ \A m \in 1 .. LastMonth : MonthStarts[m] <= day /\ day < MonthStarts[m + 1] => m = MonthOf(day)
<1> DEFINE T == {m \in DOMAIN MonthLengths : MonthStarts[m] <= day}
           last == MonthOf(day)
<1>1. LastMonth \in Nat /\ LastMonth >= 3 /\ DOMAIN MonthLengths = 1 .. LastMonth
  BY MonthsAre
<1>2. \A m \in 1 .. LastMonth + 1 : MonthStarts[m] \in Nat
  BY MonthStartsAre
<1>3. LastMonth + 1 \in 1 .. LastMonth + 1 /\ day \in Nat /\ day < MonthStarts[LastMonth + 1]
  <2>1. LastMonth + 1 \in 1 .. LastMonth + 1
    BY <1>1
  <2>2. MonthStarts[LastMonth + 1] \in Nat
    BY <1>2, <2>1
  <2> QED
    BY <2>1, <2>2
<1>4. last \in T /\ \A m \in T : m <= last
  <2>1. T \subseteq Nat /\ \A m \in T : m <= LastMonth
    BY <1>1
  <2>2. 1 \in T
    BY <1>1, <1>3, MonthStartsAre
  <2>3. last = Max(T)
    BY DEF MonthOf
  <2> HIDE DEF T, last
  <2> QED
    BY <1>1, <2>1, <2>2, <2>3, MaxIs
<1>5. last \in 1 .. LastMonth /\ MonthStarts[last] <= day
  BY <1>1, <1>4
<1>6. day < MonthStarts[last + 1]
  <2>1. CASE last = LastMonth
    BY <1>3, <2>1
  <2>2. CASE last # LastMonth
    <3>1. last + 1 \in 1 .. LastMonth /\ ~(last + 1 <= last) /\ last + 1 \in 1 .. LastMonth + 1
      BY <1>1, <1>5, <2>2
    <3>2. last + 1 \notin T
      <4> HIDE DEF T, last
      <4> QED
        BY <1>4, <3>1
    <3>3. ~(MonthStarts[last + 1] <= day)
      BY <1>1, <3>1, <3>2
    <3>4. MonthStarts[last + 1] \in Nat
      BY <1>2, <3>1
    <3> HIDE DEF last
    <3> QED
      BY <1>3, <3>3, <3>4
  <2> QED
    BY <2>1, <2>2
<1>7. ASSUME NEW m \in 1 .. LastMonth, MonthStarts[m] <= day, day < MonthStarts[m + 1]
      PROVE  m = last
  <2>1. m <= last
    <3>1. m \in T
      BY <1>1, <1>7
    <3> HIDE DEF T, last
    <3> QED
      BY <1>4, <3>1
  <2> HIDE DEF last, T
  <2>2. ~(m < last)
    <3> SUFFICES ASSUME m < last PROVE FALSE
      OBVIOUS
    <3>1. m + 1 \in 1 .. LastMonth + 1 /\ last \in 1 .. LastMonth + 1 /\ (m + 1 = last \/ m + 1 < last)
      BY <1>1, <1>5
    <3>2. MonthStarts[m + 1] <= MonthStarts[last]
      BY <1>2, <3>1, MonthsGrow
    <3> QED
      BY <1>2, <1>3, <1>5, <1>7, <3>1, <3>2
  <2> QED
    BY <1>1, <1>5, <2>1, <2>2
<1> QED
  BY <1>5, <1>6, <1>7

\* A month's first day, and the day before it.
LEMMA MonthEdges ==
    ASSUME NEW m \in 1 .. LastMonth
    PROVE  /\ MonthOf(MonthStarts[m]) = m
           /\ m > 1 => MonthOf(MonthStarts[m] - 1) = m - 1
<1>1. LastMonth \in Nat /\ m \in 1 .. LastMonth + 1 /\ LastMonth + 1 \in 1 .. LastMonth + 1 /\ m + 1 \in 1 .. LastMonth + 1
  BY MonthsAre
<1>2. MonthStarts[m] \in Nat /\ MonthStarts[m + 1] \in Nat /\ MonthStarts[LastMonth + 1] \in Nat
  BY <1>1, MonthStartsAre
<1>3. MonthStarts[m] < MonthStarts[LastMonth + 1] /\ MonthStarts[m] < MonthStarts[m + 1]
  BY <1>1, MonthsGrow
<1>4. MonthOf(MonthStarts[m]) = m
  <2>1. MonthStarts[m] \in 0 .. MonthStarts[LastMonth + 1] - 1
    BY <1>2, <1>3
  <2> QED
    BY <1>2, <1>3, <2>1, MonthOfIs
<1>5. ASSUME m > 1 PROVE MonthOf(MonthStarts[m] - 1) = m - 1
  <2>1. m - 1 \in 1 .. LastMonth /\ m - 1 \in 1 .. LastMonth + 1 /\ m - 1 < m /\ (m - 1) + 1 = m
    BY <1>1, <1>5
  <2>2. MonthStarts[m - 1] \in Nat /\ MonthStarts[m - 1] < MonthStarts[m]
    BY <1>1, <2>1, MonthStartsAre, MonthsGrow
  <2>3. MonthStarts[m] - 1 \in 0 .. MonthStarts[LastMonth + 1] - 1
    BY <1>2, <1>3, <2>2
  <2>4. MonthStarts[m - 1] <= MonthStarts[m] - 1 /\ MonthStarts[m] - 1 < MonthStarts[(m - 1) + 1]
    BY <1>2, <2>1, <2>2
  <2> QED
    BY <2>1, <2>3, <2>4, MonthOfIs
<1> QED
  BY <1>4, <1>5

\* The days a dashboard is asked for.
CalendarDays == MonthStarts[4] .. MonthStarts[LastMonth + 1] - 1

\* What DaysCoverTime and PriorIsComparable ask of an answer, of its windows alone.
WindowsFit(period, today, c, p) ==
    /\ c.from \in Int /\ c.to \in Int /\ p.from \in Int /\ p.to \in Int
    /\ c.from <= c.to /\ p.to < c.from
    /\ period # "custom" => c.to = today
    /\ LET months == IF period = "mtd" THEN 1 ELSE 3
           first == MonthOf(c.from)
       IN IF period \in {"mtd", "qtd"}
          THEN /\ c.from = MonthStarts[first] /\ p.from = MonthStarts[first - months]
               /\ today < MonthStarts[first + months]
               /\ Span(p) = Sooner(Span(c), c.from - p.from)
          ELSE p.to = c.from - 1 /\ Span(p) = Span(c)

\* A day asked for is of a month that has a quarter before it.
LEMMA CalendarDayIs ==
    ASSUME NEW today \in CalendarDays
    PROVE  /\ today \in Nat /\ MonthOf(today) \in 4 .. LastMonth
           /\ MonthStarts[MonthOf(today)] <= today /\ today < MonthStarts[MonthOf(today) + 1]
<1> DEFINE m == MonthOf(today)
<1>1. LastMonth \in Nat /\ LastMonth >= 3 /\ 4 \in 1 .. LastMonth + 1 /\ LastMonth + 1 \in 1 .. LastMonth + 1
  BY MonthsAre
<1>2. MonthStarts[4] \in Nat /\ MonthStarts[LastMonth + 1] \in Nat
  BY <1>1, MonthStartsAre
<1>3. today \in 0 .. MonthStarts[LastMonth + 1] - 1 /\ MonthStarts[4] <= today /\ today \in Nat
  BY <1>2 DEF CalendarDays
<1>4. m \in 1 .. LastMonth /\ MonthStarts[m] <= today /\ today < MonthStarts[m + 1]
  BY <1>3, MonthOfIs
<1> HIDE DEF m
<1>5. ~(m < 4)
  <2> SUFFICES ASSUME m < 4 PROVE FALSE
    OBVIOUS
  <2>1. m + 1 \in 1 .. LastMonth + 1 /\ (m + 1 = 4 \/ m + 1 < 4)
    BY <1>1, <1>4
  <2>2. MonthStarts[m + 1] <= MonthStarts[4] /\ MonthStarts[m + 1] \in Nat
    BY <1>1, <1>2, <2>1, MonthsGrow, MonthStartsAre
  <2> QED
    BY <1>2, <1>3, <1>4, <2>2
<1>6. m \in 4 .. LastMonth
  BY <1>1, <1>4, <1>5
<1> QED
  BY <1>3, <1>4, <1>6 DEF m

\* The days of a month or quarter so far, and as many of the one before.
LEMMA SoFarFits ==
    ASSUME NEW period \in {"mtd", "qtd"}, NEW today \in Int,
           NEW months, months = (IF period = "mtd" THEN 1 ELSE 3),
           NEW m \in 1 .. LastMonth, m - months \in 1 .. LastMonth, m + months \in 1 .. LastMonth + 1,
           MonthStarts[m] <= today, today < MonthStarts[m + months],
           NEW before, before = MonthStarts[m - months], NEW start, start = MonthStarts[m]
    PROVE  WindowsFit(period, today, Window(start, today),
                      Window(before, Sooner(start - 1, before + (today - start))))
<1> DEFINE end == Sooner(start - 1, before + (today - start))
           c == Window(start, today)
           p == Window(before, end)
<1>1. m \in 1 .. LastMonth + 1 /\ m - months \in 1 .. LastMonth + 1 /\ m - months < m
  BY MonthsAre
<1>2. before \in Nat /\ start \in Nat /\ before < start /\ start <= today
  BY <1>1, MonthStartsAre, MonthsGrow
<1>3. end \in Int /\ end < start /\ end - before + 1 = Sooner(today - start + 1, start - before)
  BY <1>2 DEF Sooner
<1>4. c.from = start /\ c.to = today /\ p.from = before /\ p.to = end
  BY DEF Window
<1>5. MonthOf(start) = m
  BY MonthEdges
<1> HIDE DEF c, p, end
<1>6. Span(p) = Sooner(Span(c), c.from - p.from)
  BY <1>3, <1>4 DEF Span
<1>7. p.to < c.from /\ c.from <= c.to /\ c.from \in Int /\ c.to \in Int /\ p.from \in Int /\ p.to \in Int
  BY <1>2, <1>3, <1>4
<1>8. c.from = MonthStarts[MonthOf(c.from)] /\ p.from = MonthStarts[MonthOf(c.from) - months]
      /\ today < MonthStarts[MonthOf(c.from) + months]
  BY <1>4, <1>5
<1> QED
  BY <1>4, <1>6, <1>7, <1>8 DEF WindowsFit, c, p, end

\* resolve_period for "mtd".
LEMMA MonthToDateFits ==
    ASSUME NEW today \in CalendarDays
    PROVE  WindowsFit("mtd", today, MonthToDate(today).current, MonthToDate(today).prior)
<1> DEFINE m == MonthOf(today)
           start == MonthStarts[m]
           before == MonthStarts[MonthOf(start - 1)]
<1>1. /\ MonthToDate(today).current = Window(start, today)
      /\ MonthToDate(today).prior = Window(before, Sooner(start - 1, before + (today - start)))
  BY DEF MonthToDate
<1>2. today \in Int /\ m \in 4 .. LastMonth /\ start <= today /\ today < MonthStarts[m + 1]
  BY CalendarDayIs
<1> HIDE DEF m
<1>3. m \in 1 .. LastMonth /\ m > 1 /\ m - 1 \in 1 .. LastMonth /\ m + 1 \in 1 .. LastMonth + 1
  BY <1>2, MonthsAre
<1>4. before = MonthStarts[m - 1]
  BY <1>3, MonthEdges
<1> HIDE DEF start, before
<1>5. start = MonthStarts[m] /\ MonthStarts[m] <= today
  BY <1>2 DEF start
<1>6. "mtd" \in {"mtd", "qtd"} /\ 1 = (IF "mtd" = "mtd" THEN 1 ELSE 3)
  OBVIOUS
<1>7. WindowsFit("mtd", today, Window(start, today), Window(before, Sooner(start - 1, before + (today - start))))
  BY <1>2, <1>3, <1>4, <1>5, <1>6, SoFarFits
<1> QED
  BY <1>1, <1>7

\* resolve_period for "qtd": a quarter's first month is the first of three.
LEMMA QuarterToDateFits ==
    ASSUME NEW today \in CalendarDays
    PROVE  WindowsFit("qtd", today, QuarterToDate(today).current, QuarterToDate(today).prior)
<1> DEFINE m == MonthOf(today)
           q == ((m - 1) \div 3) * 3 + 1
           start == QuarterStart(today)
           before == QuarterStart(start - 1)
<1>1. /\ QuarterToDate(today).current = Window(start, today)
      /\ QuarterToDate(today).prior = Window(before, Sooner(start - 1, before + (today - start)))
  BY DEF QuarterToDate
<1>2. today \in Int /\ m \in 4 .. LastMonth /\ MonthStarts[m] <= today /\ today < MonthStarts[m + 1]
  BY CalendarDayIs
<1>3. start = MonthStarts[q]
  BY DEF QuarterStart
<1> HIDE DEF m, start
<1>4. LastMonth \in Nat /\ LastMonth % 3 = 0
  BY MonthsAre
<1>5. /\ q \in 4 .. LastMonth /\ q <= m /\ m <= q + 2 /\ q + 3 <= LastMonth + 1
      /\ ((q - 1 - 1) \div 3) * 3 + 1 = q - 3
  BY <1>2, <1>4
<1>6. MonthStarts[q] <= today /\ today < MonthStarts[q + 3]
  <2>1. /\ q \in 1 .. LastMonth + 1 /\ m \in 1 .. LastMonth + 1 /\ m + 1 \in 1 .. LastMonth + 1
        /\ q + 3 \in 1 .. LastMonth + 1
    BY <1>2, <1>4, <1>5
  <2>2. /\ MonthStarts[q] \in Nat /\ MonthStarts[m] \in Nat /\ MonthStarts[m + 1] \in Nat
        /\ MonthStarts[q + 3] \in Nat
    BY <2>1, MonthStartsAre
  <2> HIDE DEF q
  <2>3. MonthStarts[q] <= MonthStarts[m]
    <3>1. q = m \/ q < m
      BY <1>2, <1>5
    <3> QED
      BY <2>1, <2>2, <3>1, MonthsGrow
  <2>4. MonthStarts[m + 1] <= MonthStarts[q + 3]
    <3>1. m + 1 = q + 3 \/ m + 1 < q + 3
      BY <1>2, <1>5
    <3> QED
      BY <2>1, <2>2, <3>1, MonthsGrow
  <2> QED
    BY <1>2, <2>2, <2>3, <2>4
<1> HIDE DEF q
<1>7. before = MonthStarts[q - 3]
  <2>1. q \in 1 .. LastMonth /\ q > 1
    BY <1>4, <1>5
  <2>2. MonthOf(start - 1) = q - 1
    BY <1>3, <2>1, MonthEdges
  <2> QED
    BY <1>5, <2>2 DEF QuarterStart
<1> HIDE DEF before
<1>8. q \in 1 .. LastMonth /\ q - 3 \in 1 .. LastMonth /\ q + 3 \in 1 .. LastMonth + 1
  BY <1>4, <1>5
<1>9. "qtd" \in {"mtd", "qtd"} /\ 3 = (IF "qtd" = "mtd" THEN 1 ELSE 3)
  OBVIOUS
<1>10. WindowsFit("qtd", today, Window(start, today), Window(before, Sooner(start - 1, before + (today - start))))
  BY <1>2, <1>3, <1>6, <1>7, <1>8, <1>9, SoFarFits
<1> QED
  BY <1>1, <1>10

\* resolve_period for "today", "7d" and "30d".
LEMMA LastDaysFit ==
    ASSUME NEW today \in Int, NEW n \in Nat \ {0}, NEW period, period \notin {"mtd", "qtd"}
    PROVE  WindowsFit(period, today, LastDays(today, n).current, LastDays(today, n).prior)
<1>1. /\ LastDays(today, n).current = Window(today - n + 1, today)
      /\ LastDays(today, n).prior = Window(today - 2 * n + 1, today - n)
  BY DEF LastDays
<1> DEFINE c == Window(today - n + 1, today)
           p == Window(today - 2 * n + 1, today - n)
<1>2. c.from = today - n + 1 /\ c.to = today /\ p.from = today - 2 * n + 1 /\ p.to = today - n
  BY DEF Window
<1> HIDE DEF c, p
<1>3. Span(p) = Span(c)
  BY <1>2 DEF Span
<1> QED
  BY <1>1, <1>2, <1>3 DEF WindowsFit, c, p

\* resolve_period for "custom".
LEMMA CustomFits ==
    ASSUME NEW today, NEW first \in Int, NEW last \in Int, first <= last
    PROVE  WindowsFit("custom", today, Custom(first, last).current, Custom(first, last).prior)
<1> DEFINE c == Window(first, last)
           p == Window(first - Span(c), first - 1)
<1>1. Custom(first, last).current = c /\ Custom(first, last).prior = p
  BY DEF Custom
<1>2. c.from = first /\ c.to = last /\ p.from = first - Span(c) /\ p.to = first - 1
  BY DEF Window
<1> HIDE DEF c, p
<1>3. Span(c) = last - first + 1 /\ Span(p) = Span(c)
  BY <1>2 DEF Span
<1> QED
  BY <1>1, <1>2, <1>3 DEF WindowsFit

\* resolve_period, for whatever a dashboard may ask.
LEMMA ResolvedFits ==
    ASSUME NEW today \in CalendarDays, NEW wanted \in Asked
    PROVE  WindowsFit(wanted.period, today, ResolvePeriod(wanted, today).current, ResolvePeriod(wanted, today).prior)
<1>1. today \in Int
  BY CalendarDayIs
<1>2. /\ wanted.period \in {"today", "7d", "30d", "mtd", "qtd", "custom"}
      /\ wanted.period = "custom" => wanted.first \in Int /\ wanted.last \in Int /\ wanted.first <= wanted.last
  BY CalendarAssumption DEF Asked
<1>3. CASE wanted.period = "today"
  <2>1. ResolvePeriod(wanted, today) = LastDays(today, 1)
    BY <1>3 DEF ResolvePeriod
  <2> QED
    BY <1>1, <1>3, <2>1, LastDaysFit
<1>4. CASE wanted.period = "7d"
  <2>1. ResolvePeriod(wanted, today) = LastDays(today, 7)
    BY <1>4 DEF ResolvePeriod
  <2> QED
    BY <1>1, <1>4, <2>1, LastDaysFit
<1>5. CASE wanted.period = "30d"
  <2>1. ResolvePeriod(wanted, today) = LastDays(today, 30)
    BY <1>5 DEF ResolvePeriod
  <2> QED
    BY <1>1, <1>5, <2>1, LastDaysFit
<1>6. CASE wanted.period = "mtd"
  <2>1. ResolvePeriod(wanted, today) = MonthToDate(today)
    BY <1>6 DEF ResolvePeriod
  <2> QED
    BY <1>6, <2>1, MonthToDateFits
<1>7. CASE wanted.period = "qtd"
  <2>1. ResolvePeriod(wanted, today) = QuarterToDate(today)
    BY <1>7 DEF ResolvePeriod
  <2> QED
    BY <1>7, <2>1, QuarterToDateFits
<1>8. CASE wanted.period = "custom"
  <2>1. ResolvePeriod(wanted, today) = Custom(wanted.first, wanted.last)
    BY <1>8 DEF ResolvePeriod
  <2> QED
    BY <1>2, <1>8, <2>1, CustomFits
<1> QED
  BY <1>2, <1>3, <1>4, <1>5, <1>6, <1>7, <1>8

\* An answer was resolved for the today of the zone its request took.
ViewFits ==
    view # NoView =>
        /\ zone \in Zones /\ view.now \in Int /\ Today \in CalendarDays
        /\ WindowsFit(view.period, Today, view.current, view.prior)

\* No answer is there at first.
LEMMA InitViewFits == PeriodsInit => ViewFits
BY DEF PeriodsInit, ViewFits

\* An answer is resolved for the today of its zone.
LEMMA NextViewFits == ViewFits /\ [PeriodsNext]_periodVars => ViewFits'
<1> SUFFICES ASSUME ViewFits, [PeriodsNext]_periodVars PROVE ViewFits'
  OBVIOUS
<1>1. CASE zone' = zone /\ view' = view
  BY <1>1 DEF ViewFits, Today
<1>2. CASE TakeZone
  <2>1. view' = NoView
    BY <1>2, ZonesAssumption DEF TakeZone, ViewFits
  <2> QED
    BY <2>1 DEF ViewFits, NoView
<1>3. CASE Resolve
  <2>1. zone \in Zones /\ zone' = zone
    BY <1>3 DEF Resolve
  <2>2. PICK day \in Todays, hour \in 0 .. DAY - 1, wanted \in Asked :
               view' = [period |-> wanted.period, now |-> day * DAY + hour,
                        current |-> ResolvePeriod(wanted, BusinessToday(zone, day * DAY + hour)).current,
                        prior |-> ResolvePeriod(wanted, BusinessToday(zone, day * DAY + hour)).prior]
    BY <1>3 DEF Resolve
  <2> DEFINE now == day * DAY + hour
             today == BusinessToday(zone, now)
  <2>3. now \in Int
    BY CalendarAssumption DEF DAY
  <2>4. today \in CalendarDays
    BY <2>1, CalendarAssumption DEF CalendarDays, LastMonth
  <2>5. WindowsFit(wanted.period, today, ResolvePeriod(wanted, today).current, ResolvePeriod(wanted, today).prior)
    BY <2>4, ResolvedFits
  <2>6. /\ view'.period = wanted.period /\ view'.now = now
        /\ view'.current = ResolvePeriod(wanted, today).current
        /\ view'.prior = ResolvePeriod(wanted, today).prior
    BY <2>2
  <2> HIDE DEF now
  <2>7. Today' = today
    BY <2>1, <2>6 DEF Today
  <2> HIDE DEF today
  <2> QED
    BY <2>1, <2>3, <2>4, <2>5, <2>6, <2>7 DEF ViewFits
<1> QED
  BY <1>1, <1>2, <1>3 DEF PeriodsNext, periodVars

\* Every answer's windows fit.
LEMMA ViewsAlwaysFit == PeriodsSpec => []ViewFits
<1>1. PeriodsInit => ViewFits
  BY InitViewFits
<1>2. ViewFits /\ [PeriodsNext]_periodVars => ViewFits'
  BY NextViewFits
<1> QED
  BY <1>1, <1>2, PTL DEF PeriodsSpec

\* So today's window holds the present and the one before it does not.
LEMMA ViewFitsCovers == ViewFits => DaysCoverTime
<1> SUFFICES ASSUME ViewFits, view # NoView
    PROVE  /\ \A day \in Today - 3 .. Today + 3 :
                 day = Today <=>
                     Bound(zone, day, FALSE) <= view.now /\ view.now < Bound(zone, day, TRUE)
           /\ view.period # "custom" =>
                 Bound(zone, view.current.from, FALSE) <= view.now /\ view.now < Bound(zone, view.current.to, TRUE)
           /\ Bound(zone, view.prior.to, TRUE) <= Bound(zone, view.current.from, FALSE)
  BY DEF DaysCoverTime
<1>1. zone \in Zones /\ view.now \in Int /\ Today \in CalendarDays
  BY DEF ViewFits
<1>2. /\ view.current.from \in Int /\ view.current.to \in Int /\ view.prior.to \in Int
      /\ view.current.from <= view.current.to /\ view.prior.to < view.current.from
      /\ view.period # "custom" => view.current.to = Today
  BY DEF ViewFits, WindowsFit
<1>3. Today \in Int /\ (\A day \in Int : StartOfDay(zone, day) <= view.now <=> day <= Today)
      /\ \A day \in Int : view.now < EndOfDay(zone, day) <=> Today <= day
  BY <1>1, TodayIs DEF Today
<1>4. \A day \in Today - 3 .. Today + 3 :
          day = Today <=> Bound(zone, day, FALSE) <= view.now /\ view.now < Bound(zone, day, TRUE)
  <2> SUFFICES ASSUME NEW day \in Today - 3 .. Today + 3
               PROVE  day = Today <=> StartOfDay(zone, day) <= view.now /\ view.now < EndOfDay(zone, day)
    BY DEF Bound
  <2>1. day \in Int
    BY <1>3
  <2>2. (StartOfDay(zone, day) <= view.now <=> day <= Today) /\ (view.now < EndOfDay(zone, day) <=> Today <= day)
    BY <1>3, <2>1
  <2> QED
    BY <1>3, <2>1, <2>2
<1>5. ASSUME view.period # "custom"
      PROVE  Bound(zone, view.current.from, FALSE) <= view.now /\ view.now < Bound(zone, view.current.to, TRUE)
  BY <1>2, <1>3, <1>5 DEF Bound
<1>6. Bound(zone, view.prior.to, TRUE) <= Bound(zone, view.current.from, FALSE)
  <2>1. view.prior.to + 1 \in Int /\ view.prior.to + 1 <= view.current.from
    BY <1>2
  <2> QED
    BY <1>1, <1>2, <2>1, DaysAreInOrder DEF Bound, EndOfDay
<1> QED
  BY <1>4, <1>5, <1>6

\* And the two windows are of a kind.
LEMMA ViewFitsCompares == ViewFits => PriorIsComparable
BY DEF ViewFits, WindowsFit, PriorIsComparable

\* business_today, start_of_day_utc and end_of_day_utc: in any zone whose clocks keep
\* ZonesAssumption, every instant is of the one day its local date names.
THEOREM DaysAlwaysCoverTime == PeriodsSpec => []DaysCoverTime
BY ViewsAlwaysFit, ViewFitsCovers, PTL

\* resolve_period: in any calendar of whole quarters, a window is compared with as many
\* days before it, or with the same days of the month or quarter before.
THEOREM PriorIsAlwaysComparable == PeriodsSpec => []PriorIsComparable
BY ViewsAlwaysFit, ViewFitsCompares, PTL
-----------------------------------------------------------------------------
(* Roles. *)

\* A template that grants the actions of some resources only.
Within(template, resources) == DOMAIN template \subseteq resources \X Actions

LEMMA GiveWithin ==
    ASSUME NEW R, NEW S, S \subseteq R, NEW A, A \subseteq Actions, NEW scope
    PROVE  Within(Give(S, A, scope), R)
BY DEF Within, Give

LEMMA OverWithin ==
    ASSUME NEW R, NEW f, NEW g, Within(f, R), Within(g, R)
    PROVE  Within(f @@ g, R)
BY DEF Within, @@

LEMMA ActionsAre == CRU \subseteq Actions /\ {"view"} \subseteq Actions /\ {"create"} \subseteq Actions
                    /\ {"update"} \subseteq Actions /\ {"view", "update"} \subseteq Actions
                    /\ Actions \subseteq Actions
BY DEF CRU, Actions

\* The templates of a phone organization grant what its resources are.
LEMMA PhoneWithin ==
    /\ Within(PHONE_OWNER, PHONE_RESOURCES)
    /\ Within(PHONE_ADMIN, PHONE_RESOURCES)
    /\ Within(PHONE_AGENT, PHONE_RESOURCES)
<1>1. Within(PHONE_OWNER, PHONE_RESOURCES)
    BY GiveWithin DEF PHONE_OWNER
<1>2. Within(PHONE_ADMIN, PHONE_RESOURCES)
    <2>1. /\ {"conversation", "contact", "template", "campaign", "power_dialer", "phone_number",
               "sip_credential", "tag", "user", "team"} \subseteq PHONE_RESOURCES
          /\ {"telephony", "notification", "role", "audit", "analytics", "wallet", "subscription"} \subseteq PHONE_RESOURCES
          /\ {"telephony"} \subseteq PHONE_RESOURCES
          /\ {"company_info", "integrations"} \subseteq PHONE_RESOURCES
          /\ {"thecargo_mail"} \subseteq PHONE_RESOURCES
        BY DEF PHONE_RESOURCES
    <2>. QED
        BY <2>1, ActionsAre, GiveWithin, OverWithin DEF PHONE_ADMIN
<1>3. Within(PHONE_AGENT, PHONE_RESOURCES)
    <2>1. /\ {"telephony"} \subseteq PHONE_RESOURCES
          /\ {"conversation", "power_dialer"} \subseteq PHONE_RESOURCES
          /\ {"contact"} \subseteq PHONE_RESOURCES
          /\ {"contact", "phone_number", "template", "tag", "team", "company_info"} \subseteq PHONE_RESOURCES
          /\ {"notification", "analytics"} \subseteq PHONE_RESOURCES
          /\ {"contact", "tag", "thecargo_mail"} \subseteq PHONE_RESOURCES
        BY DEF PHONE_RESOURCES
    <2>. QED
        BY <2>1, ActionsAre, GiveWithin, OverWithin DEF PHONE_AGENT
<1>. QED
    BY <1>1, <1>2, <1>3

\* And those of a carrier what a carrier's are.
LEMMA CarrierWithin ==
    /\ Within(CARRIER_SUPERUSER, CARRIER_RESOURCES)
    /\ Within(CARRIER_MANAGER, CARRIER_RESOURCES)
    /\ Within(CARRIER_OPERATOR, CARRIER_RESOURCES)
<1>1. Within(CARRIER_SUPERUSER, CARRIER_RESOURCES)
    BY GiveWithin DEF CARRIER_SUPERUSER
<1>2. Within(CARRIER_MANAGER, CARRIER_RESOURCES)
    <2>1. /\ {"conversation", "template", "campaign", "power_dialer", "tag"} \subseteq CARRIER_RESOURCES
          /\ {"contact"} \subseteq CARRIER_RESOURCES
          /\ {"telephony", "phone_number", "sip_credential", "notification", "dashboard", "insight",
               "analytics", "user", "team", "role", "company_info"} \subseteq CARRIER_RESOURCES
          /\ {"telephony"} \subseteq CARRIER_RESOURCES
          /\ {"thecargo_mail"} \subseteq CARRIER_RESOURCES
        BY DEF PHONE_RESOURCES, CARRIER_RESOURCES
    <2>. QED
        BY <2>1, ActionsAre, GiveWithin, OverWithin DEF CARRIER_MANAGER
<1>3. Within(CARRIER_OPERATOR, CARRIER_RESOURCES)
    <2>1. /\ {"telephony"} \subseteq CARRIER_RESOURCES
          /\ {"conversation", "power_dialer"} \subseteq CARRIER_RESOURCES
          /\ {"contact", "conversation", "power_dialer", "tag", "thecargo_mail"} \subseteq CARRIER_RESOURCES
          /\ {"contact", "phone_number", "template", "campaign", "tag", "team", "company_info"}
               \subseteq CARRIER_RESOURCES
          /\ {"notification", "dashboard", "analytics"} \subseteq CARRIER_RESOURCES
        BY DEF PHONE_RESOURCES, CARRIER_RESOURCES
    <2>. QED
        BY <2>1, ActionsAre, GiveWithin, OverWithin DEF CARRIER_OPERATOR
<1>. QED
    BY <1>1, <1>2, <1>3

\* What may be asked.
LEMMA QuestionIs ==
    ASSUME NEW q \in Questions
    PROVE  /\ q.type \in {"phone", "carrier", "broker"} /\ q.fromApp \in BOOLEAN
           /\ q.name \in DOMAIN TemplatesFor(q.type, q.fromApp)
           /\ q.features \in SUBSET DOMAIN FEATURES
<1>. DEFINE Of(type, fromApp) == [type : {type}, fromApp : {fromApp}, name : DOMAIN TemplatesFor(type, fromApp),
                                 features : SUBSET DOMAIN FEATURES]
<1>0. Questions = UNION {Of(type, fromApp) : type \in {"phone", "carrier", "broker"}, fromApp \in BOOLEAN}
    BY DEF Questions
<1>. HIDE DEF Of
<1>1. PICK type \in {"phone", "carrier", "broker"}, fromApp \in BOOLEAN : q \in Of(type, fromApp)
    BY <1>0
<1>2. q.type = type /\ q.fromApp = fromApp /\ q.name \in DOMAIN TemplatesFor(type, fromApp)
      /\ q.features \in SUBSET DOMAIN FEATURES
    BY <1>1 DEF Of
<1>. QED
    BY <1>2

\* The role's template grants what its organization's type has.
LEMMA TemplateWithin ==
    ASSUME NEW q \in Questions, q.type # "broker"
    PROVE  Within(TemplatesFor(q.type, q.fromApp)[q.name], ResourcesFor(q.type))
<1>1. CASE q.type = "phone"
    <2>1. TemplatesFor(q.type, q.fromApp) = PHONE_TEMPLATES /\ ResourcesFor(q.type) = PHONE_RESOURCES
        BY <1>1 DEF TemplatesFor, ResourcesFor
    <2>. QED
        BY <2>1, QuestionIs, PhoneWithin DEF PHONE_TEMPLATES
<1>2. CASE q.type = "carrier"
    <2>1. TemplatesFor(q.type, q.fromApp) = CARRIER_TEMPLATES /\ ResourcesFor(q.type) = CARRIER_RESOURCES
        BY <1>2 DEF TemplatesFor, ResourcesFor
    <2>. QED
        BY <2>1, QuestionIs, CarrierWithin DEF CARRIER_TEMPLATES
<1>. QED
    BY <1>1, <1>2, QuestionIs

\* The editor's keys are the resources of the type: no child is in sight without
\* being one of them, and none of them is under a key that is not.
LEMMA KeysInSight ==
    ASSUME NEW type \in {"phone", "carrier", "broker"}
    PROVE  UNION {Visible(key, ResourcesFor(type)) : key \in TopKeys} = ResourcesFor(type)
<1>. DEFINE allowed == ResourcesFor(type)
<1>1. allowed \subseteq RESOURCES
    BY DEF ResourcesFor, RESOURCES, CARRIER_RESOURCES
<1>2. /\ Children("shipment") = STAGES
      /\ Children("toolbar") = TOOLBAR_SECTIONS \union {"toolbar_activity"}
      /\ \A key : key \notin {"shipment", "toolbar"} => Children(key) = {}
    BY DEF Children
<1>3. {"shipment", "toolbar"} \subseteq TopKeys
    BY <1>2 DEF TopKeys, RESOURCES, STAGES, TOOLBAR_SECTIONS
<1>4. \/ {"shipment", "toolbar"} \subseteq allowed
      \/ allowed \intersect (STAGES \union TOOLBAR_SECTIONS \union {"toolbar_activity"}) = {}
    <2>1. CASE type = "broker"
        BY <2>1 DEF ResourcesFor, RESOURCES
    <2>2. CASE type = "phone"
        BY <2>2 DEF ResourcesFor, PHONE_RESOURCES, STAGES, TOOLBAR_SECTIONS
    <2>3. CASE type = "carrier"
        BY <2>3 DEF ResourcesFor, CARRIER_RESOURCES, PHONE_RESOURCES, STAGES, TOOLBAR_SECTIONS
    <2>. QED
        BY <2>1, <2>2, <2>3
<1>. HIDE DEF allowed
<1>5. ASSUME NEW key \in TopKeys PROVE Visible(key, allowed) \subseteq allowed
    BY <1>2, <1>4 DEF Visible
<1>6. ASSUME NEW r \in allowed PROVE \E key \in TopKeys : r \in Visible(key, allowed)
    <2>1. CASE r \in TopKeys
        BY <2>1, <1>6 DEF Visible
    <2>2. CASE r \in Children("shipment")
        BY <2>2, <1>3, <1>6 DEF Visible
    <2>3. CASE r \in Children("toolbar")
        BY <2>3, <1>3, <1>6 DEF Visible
    <2>. QED
        BY <2>1, <2>2, <2>3, <1>1, <1>6 DEF TopKeys
<1>7. UNION {Visible(key, allowed) : key \in TopKeys} = allowed
    BY <1>5, <1>6
<1>. QED
    BY <1>7 DEF allowed

\* The role is a scope for everything there is.
LEMMA ExpandIs ==
    ASSUME NEW template
    PROVE  /\ DOMAIN Expand(template) = RESOURCES \X Actions
           /\ \A p \in RESOURCES \X Actions :
                Expand(template)[p] = IF p \in DOMAIN template THEN template[p] ELSE NONE
BY DEF Expand

\* A request gets the scope the role has, unless the plan leaves the resource out.
LEMMA RequiresIs ==
    ASSUME NEW r \in RESOURCES, NEW a \in Actions, question \in Questions
    PROVE  LET role == Expand(TemplatesFor(question.type, question.fromApp)[question.name])
           IN Requires(User, r, a) =
                IF r \in AllowedResources(question.features) THEN role[<<r, a>>] ELSE NONE
<1>. DEFINE role == Expand(TemplatesFor(question.type, question.fromApp)[question.name])
<1>1. DOMAIN role = RESOURCES \X Actions
    BY ExpandIs
<1>2. User.superuser = FALSE /\ User.permissions = Permissions(question)
    BY DEF User
<1>3. Permissions(question) =
        [p \in {x \in DOMAIN role : role[x] # NONE /\ x[1] \in AllowedResources(question.features)} |-> role[p]]
    BY DEF Permissions
<1>. HIDE DEF role
<1>4. <<r, a>> \in DOMAIN role /\ <<r, a>>[1] = r
    BY <1>1
<1>5. <<r, a>> \in DOMAIN Permissions(question) <=>
        role[<<r, a>>] # NONE /\ r \in AllowedResources(question.features)
    BY <1>3, <1>4
<1>6. <<r, a>> \in DOMAIN Permissions(question) => Permissions(question)[<<r, a>>] = role[<<r, a>>]
    BY <1>3
<1>7. Requires(User, r, a) = IF r \in AllowedResources(question.features) THEN role[<<r, a>>] ELSE NONE
    BY <1>2, <1>5, <1>6 DEF Requires
<1>. QED
    BY <1>7 DEF role

\* The editor's half of TablesAgree.
LEMMA MenuShows ==
    ASSUME question \in Questions
    PROVE  MenuShowsRights
<1>. DEFINE template == TemplatesFor(question.type, question.fromApp)[question.name]
            role == Expand(template)
            keys == ResourcesFor(question.type)
            menu == Menu(role, question.type)
<1>1. question.type \in {"phone", "carrier", "broker"}
    BY QuestionIs
<1>2. keys \subseteq RESOURCES
    BY <1>1 DEF ResourcesFor, RESOURCES, CARRIER_RESOURCES
<1>3. menu = [p \in keys \X Actions |-> role[p]]
    BY <1>1, KeysInSight DEF Menu
<1>4. /\ DOMAIN role = RESOURCES \X Actions
      /\ \A p \in DOMAIN role : role[p] # NONE => p \in keys \X Actions
    <2>1. DOMAIN role = RESOURCES \X Actions
        BY ExpandIs
    <2>2. CASE question.type = "broker"
        BY <2>1, <2>2 DEF ResourcesFor
    <2>3. CASE question.type # "broker"
        <3>1. DOMAIN template \subseteq keys \X Actions
            BY <2>3, TemplateWithin DEF Within
        <3>2. \A p \in RESOURCES \X Actions : role[p] = IF p \in DOMAIN template THEN template[p] ELSE NONE
            BY ExpandIs
        <3>. HIDE DEF template, role, keys
        <3>. QED
            BY <2>1, <3>1, <3>2
    <2>. QED
        BY <2>2, <2>3
<1>5. \A r \in RESOURCES, a \in Actions : Requires(User, r, a) \in {role[<<r, a>>], NONE}
    BY RequiresIs
<1>6. "view" \in Actions
    BY DEF Actions
<1>. HIDE DEF template, role, keys, menu
<1>7. \A p \in DOMAIN role : role[p] # NONE => p \in DOMAIN menu /\ menu[p] = role[p]
    BY <1>3, <1>4
<1>8. {p[1] : p \in DOMAIN menu} = keys
    <2>1. \A p \in DOMAIN menu : p[1] \in keys
        BY <1>3
    <2>2. ASSUME NEW r \in keys PROVE r \in {p[1] : p \in DOMAIN menu}
        <3>1. <<r, "view">> \in DOMAIN menu
            BY <1>3, <1>6
        <3>. QED
            BY <3>1
    <2>. QED
        BY <2>1, <2>2
<1>9. ASSUME NEW p \in DOMAIN menu PROVE Requires(User, p[1], p[2]) \in {menu[p], NONE}
    <2>1. p \in keys \X Actions /\ menu[p] = role[p]
        BY <1>3
    <2>2. p[1] \in RESOURCES /\ p[2] \in Actions /\ p = <<p[1], p[2]>>
        BY <1>2, <2>1
    <2>. QED
        BY <1>5, <2>1, <2>2
<1>. QED
    BY <1>7, <1>8, <1>9 DEF MenuShowsRights, menu, role, keys, template

-----------------------------------------------------------------------------

\* Whoever has the grant in the template may do it where the plan has the resource.
LEMMA GrantedCan ==
    ASSUME question \in Questions, NEW r \in RESOURCES, NEW a \in Actions,
           r \in AllowedResources(question.features),
           <<r, a>> \in DOMAIN TemplatesFor(question.type, question.fromApp)[question.name],
           TemplatesFor(question.type, question.fromApp)[question.name][<<r, a>>] # NONE
    PROVE  Can(r, a)
<1>. DEFINE template == TemplatesFor(question.type, question.fromApp)[question.name]
<1>1. Requires(User, r, a) = Expand(template)[<<r, a>>]
    BY RequiresIs
<1>2. <<r, a>> \in RESOURCES \X Actions
    OBVIOUS
<1>3. Expand(template)[<<r, a>>] = template[<<r, a>>]
    BY <1>2, ExpandIs
<1>. QED
    BY <1>1, <1>3 DEF Can

\* What no feature unlocks is there in every plan.
LEMMA NeverGated ==
    ASSUME NEW features
    PROVE  {"user", "role", "team", "company_info", "subscription", "wallet"} \subseteq AllowedResources(features)
<1>1. {"user", "role", "team", "company_info", "subscription", "wallet"} \subseteq RESOURCES
    BY DEF RESOURCES, CARRIER_RESOURCES, PHONE_RESOURCES
<1>2. \A f \in DOMAIN FEATURES :
        FEATURES[f] \intersect {"user", "role", "team", "company_info", "subscription", "wallet"} = {}
    BY DEF FEATURES, STAGES, TOOLBAR_SECTIONS
<1>3. GATED_RESOURCES \intersect {"user", "role", "team", "company_info", "subscription", "wallet"} = {}
    BY <1>2 DEF GATED_RESOURCES, Unlocked
<1>. QED
    BY <1>1, <1>3 DEF AllowedResources

\* The phone's feature unlocks the lines and the contact book.
LEMMA PhoneUnlocks ==
    ASSUME NEW features, "phone" \in features
    PROVE  {"telephony", "phone_number", "contact"} \subseteq AllowedResources(features)
<1>1. {"telephony", "phone_number", "contact"} \subseteq FEATURES["phone"]
    BY DEF FEATURES
<1>. QED
    BY <1>1 DEF AllowedResources, Unlocked

\* Only the operating system's feature unlocks the stages.
LEMMA StagesNeedTheSystem ==
    ASSUME NEW features, features \subseteq DOMAIN FEATURES, NEW s \in STAGES, s \in AllowedResources(features)
    PROVE  "os" \in features
<1>1. STAGES \subseteq FEATURES["os"] /\ "os" \in DOMAIN FEATURES
    BY DEF FEATURES
<1>2. s \in GATED_RESOURCES
    BY <1>1 DEF GATED_RESOURCES, Unlocked
<1>3. PICK f \in features : s \in FEATURES[f]
    BY <1>2 DEF AllowedResources, Unlocked
<1>4. \A g \in DOMAIN FEATURES \ {"os"} : STAGES \intersect FEATURES[g] = {}
    BY DEF FEATURES, STAGES
<1>. QED
    BY <1>3, <1>4

\* The first role of a type has everything its type has.
LEMMA FirstRoleHasAll ==
    ASSUME question \in Questions, question.name \in {"Superuser", "Owner"},
           NEW r \in ResourcesFor(question.type), NEW a \in Actions
    PROVE  /\ <<r, a>> \in DOMAIN TemplatesFor(question.type, question.fromApp)[question.name]
           /\ TemplatesFor(question.type, question.fromApp)[question.name][<<r, a>>] # NONE
<1>. DEFINE template == TemplatesFor(question.type, question.fromApp)[question.name]
<1>1. ASSUME NEW S, r \in S PROVE /\ <<r, a>> \in DOMAIN Give(S, Actions, "all")
                                  /\ Give(S, Actions, "all")[<<r, a>>] # NONE
    BY <1>1 DEF Give, NONE
<1>2. CASE question.type = "phone"
    <2>1. TemplatesFor(question.type, question.fromApp) = PHONE_TEMPLATES /\ r \in PHONE_RESOURCES
        BY <1>2 DEF TemplatesFor, ResourcesFor
    <2>2. question.name \in DOMAIN PHONE_TEMPLATES
        BY <2>1, QuestionIs
    <2>3. template = PHONE_OWNER
        BY <2>1, <2>2 DEF PHONE_TEMPLATES
    <2>. QED
        BY <1>1, <2>1, <2>3 DEF PHONE_OWNER
<1>3. CASE question.type = "carrier"
    <2>1. TemplatesFor(question.type, question.fromApp) = CARRIER_TEMPLATES /\ r \in CARRIER_RESOURCES
        BY <1>3 DEF TemplatesFor, ResourcesFor
    <2>2. question.name \in DOMAIN CARRIER_TEMPLATES
        BY <2>1, QuestionIs
    <2>3. template = CARRIER_SUPERUSER
        BY <2>1, <2>2 DEF CARRIER_TEMPLATES
    <2>. QED
        BY <1>1, <2>1, <2>3 DEF CARRIER_SUPERUSER
<1>4. CASE question.type = "broker"
    <2>1. r \in RESOURCES
        BY <1>4 DEF ResourcesFor
    <2>2. <<r, a>> \in DOMAIN SUPERUSER /\ SUPERUSER[<<r, a>>] # NONE
        BY <1>1, <2>1 DEF SUPERUSER
    <2>3. question.name = "Superuser" /\ DOMAIN TemplatesFor(question.type, question.fromApp) = DOMAIN TEMPLATES
          /\ question.name \in DOMAIN TEMPLATES
        <3>1. DOMAIN TemplatesFor(question.type, question.fromApp) = DOMAIN TEMPLATES
            BY <1>4 DEF TemplatesFor
        <3>2. "Owner" \notin DOMAIN TEMPLATES
            BY DEF TEMPLATES
        <3>. QED
            BY <3>1, <3>2, QuestionIs
    <2>4. TEMPLATES["Superuser"] = SUPERUSER
        BY DEF TEMPLATES
    <2>5. CASE ~question.fromApp
        <3>1. template = SUPERUSER
            BY <1>4, <2>3, <2>4, <2>5 DEF TemplatesFor
        <3>. QED
            BY <2>2, <3>1
    <2>6. CASE question.fromApp
        <3>1. template = APP_BROKER_GRANTS("Superuser") @@ SUPERUSER
            BY <1>4, <2>3, <2>4, <2>6 DEF TemplatesFor
        <3>2. DOMAIN APP_BROKER_GRANTS("Superuser") = {}
            BY DEF APP_BROKER_GRANTS, Give
        <3>. QED
            BY <2>2, <3>1, <3>2 DEF @@
    <2>. QED
        BY <2>5, <2>6, QuestionIs
<1>. QED
    BY <1>2, <1>3, <1>4, QuestionIs

\* What those on the lines are granted.
LEMMA LinesAre ==
    ASSUME NEW p \in {<<"telephony", "update">>, <<"phone_number", "view">>, <<"contact", "create">>,
                      <<"contact", "view">>}
    PROVE  p \in DOMAIN ON_THE_LINES /\ ON_THE_LINES[p] # NONE
<1>. DEFINE T == Give({"telephony"}, {"view", "update"}, "all")
            P == Give({"phone_number"}, {"view"}, "all")
            C == Give({"contact"}, CRU, "all")
<1>1. /\ DOMAIN T = {"telephony"} \X {"view", "update"} /\ \A x \in DOMAIN T : T[x] # NONE
      /\ DOMAIN P = {"phone_number"} \X {"view"} /\ \A x \in DOMAIN P : P[x] # NONE
      /\ DOMAIN C = {"contact"} \X CRU /\ \A x \in DOMAIN C : C[x] # NONE
    BY DEF Give, NONE
<1>2. ON_THE_LINES = T @@ P @@ C
    BY DEF ON_THE_LINES
<1>3. p \in DOMAIN T \union DOMAIN P \union DOMAIN C
    BY <1>1 DEF CRU
<1>. HIDE DEF T, P, C
<1>4. \A x \in DOMAIN (T @@ P) : (T @@ P)[x] # NONE
    BY <1>1 DEF @@
<1>5. \A x \in DOMAIN ((T @@ P) @@ C) : ((T @@ P) @@ C)[x] # NONE
    BY <1>1, <1>4 DEF @@
<1>. QED
    BY <1>2, <1>3, <1>5 DEF @@

\* Everyone of a broker that signed up in the app, but its accountant, is on the
\* lines; and everyone sees the contact book.
LEMMA AppBrokerIs ==
    ASSUME question \in Questions, question.type = "broker", question.fromApp,
           NEW p \in {<<"telephony", "update">>, <<"phone_number", "view">>, <<"contact", "create">>,
                      <<"contact", "view">>},
           question.name = "Accountant" => p = <<"contact", "view">>
    PROVE  /\ p \in DOMAIN TemplatesFor(question.type, question.fromApp)[question.name]
           /\ TemplatesFor(question.type, question.fromApp)[question.name][p] # NONE
<1>. DEFINE template == TemplatesFor(question.type, question.fromApp)[question.name]
            grants == APP_BROKER_GRANTS(question.name)
<1>1. /\ TemplatesFor(question.type, question.fromApp)
            = [name \in DOMAIN TEMPLATES |-> APP_BROKER_GRANTS(name) @@ TEMPLATES[name]]
      /\ question.name \in DOMAIN TEMPLATES
    <2>1. TemplatesFor(question.type, question.fromApp)
            = [name \in DOMAIN TEMPLATES |-> APP_BROKER_GRANTS(name) @@ TEMPLATES[name]]
        BY DEF TemplatesFor
    <2>. QED
        BY <2>1, QuestionIs
<1>2. template = grants @@ TEMPLATES[question.name]
    BY <1>1
<1>3. CASE question.name = "Superuser"
    <2>1. p = <<p[1], p[2]>> /\ p[1] \in ResourcesFor(question.type) /\ p[2] \in Actions
        BY DEF ResourcesFor, RESOURCES, CARRIER_RESOURCES, PHONE_RESOURCES, Actions
    <2>. QED
        BY <1>3, <2>1, FirstRoleHasAll
<1>4. CASE question.name # "Superuser"
    <2>1. p \in DOMAIN grants /\ grants[p] # NONE
        <3>1. CASE question.name = "Accountant"
            <4>1. grants = Give({"contact"}, {"view"}, "all") /\ p = <<"contact", "view">>
                BY <3>1 DEF APP_BROKER_GRANTS
            <4>. QED
                BY <4>1 DEF Give, NONE
        <3>2. CASE question.name = "Manager"
            <4>1. grants = Give({"conversation"}, {"create"}, "all") @@ ON_THE_LINES
                BY <3>2 DEF APP_BROKER_GRANTS
            <4>2. p \notin DOMAIN Give({"conversation"}, {"create"}, "all")
                BY DEF Give
            <4>. QED
                BY <4>1, <4>2, LinesAre DEF @@
        <3>3. CASE question.name \notin {"Superuser", "Accountant", "Manager"}
            <4>1. grants = ON_THE_LINES
                BY <3>3 DEF APP_BROKER_GRANTS
            <4>. QED
                BY <4>1, LinesAre
        <3>. QED
            BY <1>4, <3>1, <3>2, <3>3
    <2>. HIDE DEF grants
    <2>. QED
        BY <1>2, <2>1 DEF @@
<1>. QED
    BY <1>3, <1>4

\* The plans' half of TablesAgree.
LEMMA PlansLeave ==
    ASSUME question \in Questions
    PROVE  PlansLeaveTheKeys
<1>1. ASSUME question.name \in {"Superuser", "Owner"}
      PROVE  /\ \A r \in {"user", "role", "team", "company_info"}, a \in Actions : Can(r, a)
             /\ Can("subscription", "view") /\ Can("wallet", "view")
    <2>1. {"user", "role", "team", "company_info", "subscription", "wallet"} \subseteq ResourcesFor(question.type)
        BY QuestionIs DEF ResourcesFor, RESOURCES, CARRIER_RESOURCES, PHONE_RESOURCES
    <2>2. {"user", "role", "team", "company_info", "subscription", "wallet"} \subseteq RESOURCES
        BY DEF RESOURCES, CARRIER_RESOURCES, PHONE_RESOURCES
    <2>3. ASSUME NEW r \in {"user", "role", "team", "company_info", "subscription", "wallet"}, NEW a \in Actions
          PROVE  Can(r, a)
        <3>1. r \in RESOURCES /\ r \in AllowedResources(question.features) /\ r \in ResourcesFor(question.type)
            BY <2>1, <2>2, NeverGated
        <3>. QED
            BY <1>1, <3>1, FirstRoleHasAll, GrantedCan
    <2>. QED
        BY <2>3 DEF Actions
<1>2. ASSUME question.type = "broker", question.fromApp, "phone" \in question.features
      PROVE  /\ question.name # "Accountant" =>
                Can("telephony", "update") /\ Can("phone_number", "view") /\ Can("contact", "create")
             /\ Can("contact", "view")
    <2>1. {"telephony", "phone_number", "contact"} \subseteq RESOURCES
          /\ {"update", "view", "create"} \subseteq Actions
        BY DEF RESOURCES, CARRIER_RESOURCES, PHONE_RESOURCES, Actions
    <2>2. ASSUME NEW r \in {"telephony", "phone_number", "contact"}, NEW a \in {"update", "view", "create"},
                 <<r, a>> \in {<<"telephony", "update">>, <<"phone_number", "view">>, <<"contact", "create">>,
                               <<"contact", "view">>},
                 question.name = "Accountant" => <<r, a>> = <<"contact", "view">>
          PROVE  Can(r, a)
        <3>1. r \in RESOURCES /\ a \in Actions /\ r \in AllowedResources(question.features)
            BY <1>2, <2>1, PhoneUnlocks
        <3>2. /\ <<r, a>> \in DOMAIN TemplatesFor(question.type, question.fromApp)[question.name]
              /\ TemplatesFor(question.type, question.fromApp)[question.name][<<r, a>>] # NONE
            BY <1>2, <2>2, AppBrokerIs
        <3>. QED
            BY <3>1, <3>2, GrantedCan
    <2>. QED
        BY <2>2
<1>3. ASSUME NEW s \in STAGES, NEW a \in Actions, CheckStagePermission(User, s, a) # NONE
      PROVE  "os" \in question.features
    <2>1. s \in RESOURCES
        BY DEF RESOURCES
    <2>2. CheckStagePermission(User, s, a) = Requires(User, s, a)
        BY DEF CheckStagePermission, Requires
    <2>3. s \in AllowedResources(question.features)
        BY <1>3, <2>1, <2>2, RequiresIs
    <2>. QED
        BY <2>3, StagesNeedTheSystem, QuestionIs
<1>. QED
    BY <1>1, <1>2, <1>3 DEF PlansLeaveTheKeys

\* TablesAgree: for every type, plan and role, the three tables kept by hand say
\* the same.
THEOREM RolesTablesAgree == RolesSpec => []TablesAgree
<1>. DEFINE Inv == question = NoQuestion \/ question \in Questions
<1>1. RolesInit => Inv
    BY DEF RolesInit
<1>2. Inv /\ [RolesNext]_roleVars => Inv'
    BY DEF RolesNext, Ask, roleVars
<1>3. Inv => TablesAgree
    <2>1. ASSUME question = NoQuestion PROVE TablesAgree
        BY <2>1 DEF TablesAgree, MenuShowsRights, PlansLeaveTheKeys
    <2>2. ASSUME question \in Questions PROVE TablesAgree
        BY <2>2, MenuShows, PlansLeave DEF TablesAgree
    <2>. QED
        BY <2>1, <2>2
<1>. QED
    BY <1>1, <1>2, <1>3, PTL DEF RolesSpec
=============================================================================
