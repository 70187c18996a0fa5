----------------------------- MODULE LeadFields -----------------------------
(***************************************************************************)
(* thecargo.lead_fields: which part of an email becomes the value of which *)
(* field of a lead.                                                        *)
(*                                                                         *)
(* The labels of the fields, configured or built in, are searched in the   *)
(* text; a match is a label, perhaps a number, and a colon. Labels may be  *)
(* parts of one another, so matches may overlap; of those that are kept    *)
(* each one's value is the text up to the next, or to the end of the line. *)
(* The search is in text.lower(), which makes two characters of one like   *)
(* U+0130; the places found there are used on the text all the same, which *)
(* may be shorter. An email is given by its matches, by the places of such *)
(* second characters, and by its newlines and its blanks, the characters   *)
(* no value begins or ends with; its words are left out.                   *)
(***************************************************************************)
EXTENDS Naturals, Sequences, FiniteSets, FiniteSetsExt

CONSTANTS
    TextLength,      \* of the text in lower case
    MaxMatches,      \* bound on the matches
    MaxTail,         \* bound on the number and colon behind a label
    FieldKeys,       \* the number of fields; a field is its place in the catalogue
    VehicleKeys,     \* the fields of its section VEHICLE
    MaxIndex,        \* bound on the vehicle a label is of
    Stretches,       \* where the second characters may be: a set of sets of places
    Newlines, Blanks \* where they may be in the text: sets of sets of places

VARIABLES
    email,           \* what parse_email_fields is given, or NoEmail
    kept             \* the matches it keeps, in order

leadVars == <<email, kept>>

Places == 0 .. TextLength - 1

ASSUME LeadAssumption ==
    /\ {TextLength, MaxMatches, MaxTail, FieldKeys, MaxIndex} \subseteq Nat
    /\ Stretches \subseteq SUBSET Places
    /\ Newlines \subseteq SUBSET Places /\ Blanks \subseteq SUBSET Places

NoEmail == [matches |-> {}, stretched |-> {}, newlines |-> {}, blanks |-> {}]

\* A match is of a field, and of a vehicle by the label's number, by a "vehicle"
\* or "unit" before it on the line, or as configured; length is the label's own.
Matches ==
    {m \in [start : Places, end : 1 .. TextLength, length : 1 .. TextLength,
            key : 1 .. FieldKeys, index : 0 .. MaxIndex] :
        m.end - (m.start + m.length) \in 1 .. MaxTail}

\* The place in the text of one in lower case, and the places of a match.
TextPlace(stretched, p) == p - Cardinality({q \in stretched : q <= p})
TextPlaces(stretched, first, last) == {TextPlace(stretched, p) : p \in first .. last}

----------------------------------------------------------------------------
\* hits.sort: by place, the longest label first; the sort is stable, and the
\* fields were searched one after another.
Earlier(a, b) ==
    \/ a.start < b.start
    \/ a.start = b.start /\ a.length > b.length
    \/ a.start = b.start /\ a.length = b.length /\ a.key < b.key

First(matches) == CHOOSE m \in matches : \A o \in matches \ {m} : Earlier(m, o)

\* Mutant: matches may overlap as long as they begin one after the other.
KeepsOverlaps(matches) ==
    LET From[place \in 0 .. TextLength] ==
            LET rest == {m \in matches : m.start >= place}
            IN IF rest = {} THEN <<>> ELSE <<First(rest)>> \o From[First(rest).start + 1]
    IN From[0]

\* _scan_labels: each match that begins where the last one kept has ended, or later.
ScanLabels(matches) ==
    LET From[place \in 0 .. TextLength] ==
            LET rest == {m \in matches : m.start >= place}
            IN IF rest = {} THEN <<>> ELSE <<First(rest)>> \o From[First(rest).end]
    IN From[0]

\* The value of the i-th match that was kept: of the text, from the place where
\* the match ended in lower case to the one where the next began there, or to the
\* newline, stripped. Empty if it is all blank or begins behind the text.
Value(i) ==
    LET length == TextLength - Cardinality(email.stretched)
        next == IF i < Len(kept) THEN {kept[i + 1].start} ELSE {}
        stop == Min({length} \union next \union {n \in email.newlines : n >= kept[i].end})
        words == {p \in kept[i].end .. stop - 1 : p \notin email.blanks}
    IN IF words = {} THEN {} ELSE Min(words) .. Max(words)

\* found: the first value of every field and vehicle.
Found(key, index) ==
    LET said == {i \in DOMAIN kept : kept[i].key = key /\ kept[i].index = index /\ Value(i) # {}}
    IN IF said = {} THEN {} ELSE Value(Min(said))

\* A label without a value counts for the number of vehicles all the same.
VehicleSlots == {kept[i].index : i \in {j \in DOMAIN kept : kept[j].key \in VehicleKeys}}

\* What is emitted as the field of the lead: that of its first vehicle.
FieldIndex(key) ==
    LET found == {index \in 0 .. MaxIndex : Found(key, index) # {}}
    IN IF found = {} THEN 0 ELSE Min(found)

----------------------------------------------------------------------------
\* A label at a place is read in one way; for each of its fields it may be
\* configured for another vehicle.
OneLabel(m, o) ==
    m.start = o.start /\ m.length = o.length => m.end = o.end /\ (m.key = o.key => m.index = o.index)

LeadInit == email = NoEmail /\ kept = <<>>

ParseEmail ==
    /\ email = NoEmail
    /\ \E some \in [1 .. MaxMatches -> Matches] :
          LET matches == {some[i] : i \in 1 .. MaxMatches} IN
          /\ \A i \in 1 .. MaxMatches - 1 : some[i] = some[i + 1] \/ Earlier(some[i], some[i + 1])
          /\ \A m, o \in matches : OneLabel(m, o)
          /\ \E stretched \in Stretches, newlines \in Newlines, blanks \in Blanks :
                /\ \A m \in matches :
                      newlines \intersect (TextPlaces(stretched, m.start, m.start + m.length - 1)
                                               \union {TextPlace(stretched, m.end - 1)}) = {}
                /\ email' = [matches |-> matches, stretched |-> stretched, newlines |-> newlines, blanks |-> blanks]
          /\ kept' = ScanLabels(matches)

LeadNext == ParseEmail

LeadSpec == LeadInit /\ [][LeadNext]_leadVars

----------------------------------------------------------------------------
(* Properties. *)

\* Each word of an email is read at most once: values overlap neither one another
\* nor a line's end, and hold nothing of a label that was kept, unless a character
\* that lower() lengthens comes before that label's end; a label was dropped only
\* for one that it overlaps, which begins earlier or is as long; what a lead and
\* its vehicles show is a value, the first said of it; and the vehicle a value is
\* of is among those that were counted.
WordsAreReadOnce ==
    email # NoEmail =>
        LET slots == (1 .. FieldKeys) \X (0 .. MaxIndex) IN
        /\ \A s, t \in slots : s # t => Found(s[1], s[2]) \intersect Found(t[1], t[2]) = {}
        /\ \A s \in slots, i \in DOMAIN kept :
              LET value == Found(s[1], s[2]) IN
              /\ (\A q \in email.stretched : q >= kept[i].end) =>
                    value \intersect TextPlaces(email.stretched, kept[i].start, kept[i].end - 1) = {}
              /\ value \intersect email.newlines = {}
              /\ kept[i].key = s[1] /\ kept[i].index = s[2] /\ Value(i) # {} =>
                    value # {} /\ Min(value) <= Min(Value(i))
        /\ \A m \in email.matches : (\A i \in DOMAIN kept : kept[i] # m) =>
              \E i \in DOMAIN kept :
                  /\ kept[i].start <= m.start /\ m.start < kept[i].end
                  /\ kept[i].start = m.start => kept[i].length >= m.length
        /\ \A key \in VehicleKeys : Found(key, FieldIndex(key)) # {} => FieldIndex(key) \in VehicleSlots
=============================================================================
