------------------------------ MODULE Consent ------------------------------
(***************************************************************************)
(* thecargo.consent and thecargo.repositories.consent: the consent records *)
(* of one customer's number, and what they say of a call or a text.        *)
(*                                                                         *)
(* Records are only added. A record carries the time its transaction began *)
(* (now() in PostgreSQL), so one that is committed later may be the earlier*)
(* of two, and the records of one transaction have the same time. A sender *)
(* reads the history in the order of these times, ties in any order.       *)
(***************************************************************************)
EXTENDS Integers, Sequences, FiniteSets

CONSTANTS
    Lines,         \* the organization's own numbers, as its records name them
    ValidLines,    \* those that normalize_phone knows as US numbers
    NoLine,        \* line_number or our_line is None
    MaxRecords,    \* bound on the records of the number
    MaxTime        \* bound on the times

ASSUME ConsentAssumption ==
    NoLine \notin Lines /\ ValidLines \subseteq Lines /\ MaxRecords \in Nat /\ MaxTime \in Nat

VARIABLE committed    \* the committed records

Channels == {"call", "text"}
Statuses == {"do_not_call", "do_not_text", "wrong_number", "allowed"}
SendTypes == {"manual", "mass", "automated"}
Decisions == {"allow", "warn", "block"}
OurLines == Lines \cup {NoLine}

\* Records of one bucket supersede each other.
Buckets == [channel : Channels, scope : {"global", "line"}, line : OurLines]
Records == [bucket : Buckets, status : Statuses, at : 0 .. MaxTime]

ConsentInit == committed = {}

----------------------------------------------------------------------------
(* What a history says: evaluate and the functions under it.               *)

\* The orders in which ORDER BY created_at may return the records.
Histories(R) ==
    {h \in [1 .. Cardinality(R) -> R] :
        /\ \A i, j \in DOMAIN h : i < j => h[i] # h[j] /\ h[i].at <= h[j].at}

IsGlobal(r) == r.bucket.scope = "global" /\ r.bucket.line = NoLine

\* Mutant: the first record of a bucket counts.
StandingFirst(h) ==
    {i \in DOMAIN h : h[i].status # "allowed" /\ \A j \in DOMAIN h : h[j].bucket = h[i].bucket => i <= j}

\* The records that are the latest of their bucket and no permission.
Standing(h) ==
    {i \in DOMAIN h : h[i].status # "allowed" /\ \A j \in DOMAIN h : h[j].bucket = h[i].bucket => j <= i}

\* Those in force for our line, and those of our other lines.
Candidates(h, channel, ourLine) ==
    {i \in Standing(h) :
        /\ h[i].bucket.channel = channel
        /\ \/ IsGlobal(h[i])
           \/ ourLine # NoLine /\ h[i].bucket.scope = "line" /\ h[i].bucket.line \in {ourLine, NoLine}}

OtherLineBlocks(h, channel, ourLine) ==
    {i \in Standing(h) :
        /\ h[i].bucket.channel = channel
        /\ h[i].bucket.scope = "line" /\ h[i].bucket.line \notin {ourLine, NoLine}}

\* max returns the first of equals: the global record before that of the line
\* before the one without a line, and other lines as the history met them.
Precedence(h, i) ==
    IF IsGlobal(h[i]) THEN 0
    ELSE IF h[i].bucket.line = NoLine THEN Len(h) + 1
    ELSE CHOOSE j \in 1 .. i : h[j].bucket = h[i].bucket /\ \A k \in 1 .. (j - 1) : h[k].bucket # h[i].bucket

Newest(h, S) ==
    CHOOSE i \in S : \A j \in S \ {i} :
        h[j].at < h[i].at \/ (h[j].at = h[i].at /\ Precedence(h, i) < Precedence(h, j))

\* Mutant: the records of our other lines are looked at first.
PickOthersFirst(h, channel, ourLine) ==
    LET others == OtherLineBlocks(h, channel, ourLine)
    IN IF others # {} THEN Newest(h, others) ELSE Newest(h, Candidates(h, channel, ourLine))

PickEffective(h, channel, ourLine) ==
    LET candidates == Candidates(h, channel, ourLine)
    IN IF candidates # {} THEN Newest(h, candidates) ELSE Newest(h, OtherLineBlocks(h, channel, ourLine))

WrongNumber(h) == \E i \in Standing(h) : IsGlobal(h[i]) /\ h[i].status = "wrong_number"

\* What a stop for texts says of a text from our line.
StopDecision(r, ourLine, sendType) ==
    IF IsGlobal(r) \/ r.bucket.line = NoLine \/ r.bucket.line = ourLine THEN "block"
    ELSE IF ourLine = NoLine /\ sendType \in {"mass", "automated"} THEN "block"
    ELSE "warn"

Evaluate(h, channel, ourLine, sendType) ==
    LET r == h[PickEffective(h, channel, ourLine)]
    IN IF WrongNumber(h) THEN "block"
       ELSE IF Candidates(h, channel, ourLine) \cup OtherLineBlocks(h, channel, ourLine) = {} THEN "allow"
       ELSE IF channel = "call" /\ r.status = "do_not_call" THEN "block"
       ELSE IF channel = "text" /\ r.status = "do_not_text" THEN StopDecision(r, ourLine, sendType)
       ELSE "allow"

\* check_contactability: a line that is no US number is asked for as None.
AskedLine(ourLine) == IF ourLine \in ValidLines THEN ourLine ELSE NoLine

CheckContactability(h, channel, ourLine, sendType) ==
    Evaluate(h, channel, AskedLine(ourLine), sendType)

----------------------------------------------------------------------------
\* ConsentRepository.record, in a transaction that began at any time and commits now.
Record(bucket, status, at) ==
    /\ Cardinality(committed) < MaxRecords
    /\ committed' = committed \cup {[bucket |-> bucket, status |-> status, at |-> at]}

ConsentNext ==
    \E bucket \in Buckets, status \in Statuses, at \in 0 .. MaxTime : Record(bucket, status, at)

ConsentSpec == ConsentInit /\ [][ConsentNext]_committed

----------------------------------------------------------------------------
(* Properties. *)

\* What the records say of a contact, without a history to fold over: a record
\* is in force until a later one of its bucket.
InForce(r) ==
    /\ r \in committed /\ r.status # "allowed"
    /\ \A s \in committed : s.bucket = r.bucket => s.at <= r.at

Stops(r) == InForce(r) /\ r.bucket.channel = "text" /\ r.status = "do_not_text"

\* The record reaches texts from ourLine, not only from another line.
Reaches(r, ourLine) ==
    \/ IsGlobal(r)
    \/ ourLine # NoLine /\ r.bucket.scope = "line" /\ r.bucket.line \in {ourLine, NoLine}

OtherLine(r, ourLine) == r.bucket.scope = "line" /\ r.bucket.line \notin {ourLine, NoLine}

Policy(channel, ourLine, sendType) ==
    IF \/ \E r \in committed : InForce(r) /\ IsGlobal(r) /\ r.status = "wrong_number"
       \/ /\ channel = "call"
          /\ \E r \in committed : InForce(r) /\ r.bucket.channel = "call" /\ r.status = "do_not_call"
       \/ channel = "text" /\ \E r \in committed : Stops(r) /\ Reaches(r, ourLine)
       \/ /\ channel = "text" /\ ourLine = NoLine /\ sendType # "manual"
          /\ \E r \in committed : Stops(r) /\ OtherLine(r, ourLine)
    THEN "block"
    ELSE IF channel = "text" /\ \E r \in committed : Stops(r) /\ OtherLine(r, ourLine)
    THEN "warn" ELSE "allow"

\* Records as agents, keywords and imports write them: a text bucket stops or
\* allows texts, the call bucket calls, a wrong number is no matter of one line,
\* and no two records of a bucket are of one time.
WellRecorded ==
    /\ \A r \in committed :
        /\ r.bucket.channel = "call" => IsGlobal(r) /\ r.status # "do_not_text"
        /\ r.bucket.channel = "text" => r.status # "do_not_call"
        /\ r.status = "wrong_number" => IsGlobal(r)
    /\ \A r, s \in committed : r.bucket = s.bucket /\ r.at = s.at => r = s

\* evaluate folds the history, picks one record and decides by its status alone;
\* of well recorded histories that is what all records in force together say.
EvaluateIsPolicy ==
    WellRecorded =>
        \A h \in Histories(committed), channel \in Channels, ourLine \in ValidLines \cup {NoLine},
           sendType \in SendTypes :
            CheckContactability(h, channel, ourLine, sendType) = Policy(channel, ourLine, sendType)

\* Whatever is recorded, only two things can hide a stop that reaches our line: a
\* record in force there that is no stop and at least as late, as a wrong number
\* recorded for one line; or a line check_contactability does not know, for which
\* stops of one line and the legacy stops of any line do not count as its own.
StopHolds ==
    \A h \in Histories(committed), ourLine \in OurLines, sendType \in SendTypes : \A i \in Standing(h) :
        /\ Stops(h[i]) /\ Reaches(h[i], ourLine)
        /\ CheckContactability(h, "text", ourLine, sendType) # "block"
        => \/ \E j \in Standing(h) :
                /\ h[j].bucket.channel = "text" /\ h[j].status # "do_not_text"
                /\ Reaches(h[j], ourLine) /\ h[j].at >= h[i].at
           \/ AskedLine(ourLine) = NoLine /\ ~IsGlobal(h[i])
=============================================================================
