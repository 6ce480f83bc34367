----------------------------- MODULE PackObject -----------------------------
(***************************************************************************)
(* The bytes of an object in a pack: its header, which the parsers of      *)
(* crates/git-repositories/src/git/parsers.rs read from messages that end  *)
(* anywhere, and the instructions of a delta, from which reconstruct() of  *)
(* git/local_pack_file_reader.rs makes an object.  GitFetch and GitExtract *)
(* take both as units that can be parsed.                                  *)
(*                                                                         *)
(* The bytes that are sent are written by git; the end of a delta may be   *)
(* missing, and its parent may be another one.  Of what a delta makes the  *)
(* pieces are followed, not their bytes.                                   *)
(*                                                                         *)
(* What is recursive is a recursive function of one of the module's own,   *)
(* with one equation each, so that it can be reasoned about.               *)
(***************************************************************************)
EXTENDS Naturals, Sequences, FiniteSets, FiniteSetsExt

CONSTANTS
    Plain,          \* objects that are no deltas: types 1..6, and lengths
    Scripts,        \* rows of pieces that deltas may stand for
    ParentLengths,
    HashLength      \* 20

Byte == 0..255

\* The bytes of a number, the lowest first.
BytesOf(n) ==
    LET second == n \div 256
        third == second \div 256
    IN  <<n % 256, second % 256, third % 256, third \div 256>>

\* A piece is copied from the parent, or is data of the delta.  Its numbers fit
\* into the bytes that there are for them: four and three, and seven bits.
Piece ==
    {p \in [from : {"parent"}, offset : Nat, length : Nat \ {0}] :
        BytesOf(p.offset)[4] < 256 /\ BytesOf(p.length)[4] = 0}
    \cup {p \in [from : {"delta"}, data : Seq(Byte)] : Len(p.data) \in 1..127}

ASSUME ScriptAssumption == Scripts \subseteq Seq(Piece)
ASSUME PlainAssumption == Plain \subseteq [type : 0..6, length : Nat]
ASSUME LengthAssumption == HashLength \in Nat /\ ParentLengths \subseteq Nat

VARIABLES
    object,   \* the object that is sent; for a delta its type is 7
    script,   \* the pieces it stands for
    coded,    \* how a copy is coded: all its bytes, or those that are not 0
    parent,   \* the length of the parent it is meant for
    base,     \* the length of the parent there is
    came,     \* bytes of the object's header and its stream that have come
    kept,     \* bytes of the delta that were stored
    rest,     \* what is left of them
    read,     \* the header that was read
    announced, written, pieces,  \* of reconstruct()
    stage     \* where the object stands, or how it has ended

sentVars == <<object, script, coded, parent, base>>
madeVars == <<announced, written, pieces>>
objectVars == <<sentVars, came, kept, rest, read, madeVars, stage>>

IsDelta == object.type = 7
-----------------------------------------------------------------------------
(***************************************************************************)
(* How git writes them.                                                    *)
(***************************************************************************)

\* Seven bits in a byte, the lowest first.
VarCode[n \in Nat] ==
    IF n < 128 THEN <<n>> ELSE <<128 + (n % 128)>> \o VarCode[n \div 128]

\* Three bits of a type and four of a length, then seven at a time.
HeaderCode(type, n) ==
    IF n < 16 THEN <<16 * type + n>>
    ELSE <<128 + 16 * type + (n % 16)>> \o VarCode[n \div 16]

\* The bytes of a copy: four of its offset, and three of its length, in which
\* 65536 is 0.
CopyByte(p, i) ==
    IF i < 4 THEN BytesOf(p.offset)[i + 1]
    ELSE IF p.length = 65536 THEN 0
    ELSE BytesOf(p.length)[i - 3]

\* The first byte of a copy says which ones follow.
Flag(sent, i) == IF i \in sent THEN 1 ELSE 0
FirstByte(sent) ==
    128 + Flag(sent, 0) + 2 * Flag(sent, 1) + 4 * Flag(sent, 2) + 8 * Flag(sent, 3)
        + 16 * Flag(sent, 4) + 32 * Flag(sent, 5) + 64 * Flag(sent, 6)

\* How many of the bytes up to i are sent.
UpTo(sent, i) == Cardinality({j \in sent : j <= i})

CopyCode(how, p) ==
    LET sent == {i \in 0..6 : how = "all" \/ CopyByte(p, i) # 0} IN
    [k \in 1..1 + Cardinality(sent) |->
        IF k = 1 THEN FirstByte(sent)
        ELSE CopyByte(p, CHOOSE i \in sent : UpTo(sent, i) = k - 1)]

PieceCode(how, p) ==
    IF p.from = "parent" THEN CopyCode(how, p) ELSE <<Len(p.data)>> \o p.data

PieceLength(p) == IF p.from = "parent" THEN p.length ELSE Len(p.data)

\* The codes of the last k pieces, and what they make.
LastCodes(how, row) ==
    LET code[k \in 0..Len(row)] ==
          IF k = 0 THEN <<>> ELSE PieceCode(how, row[Len(row) - k + 1]) \o code[k - 1]
    IN  code

LastLengths(row) ==
    LET total[k \in 0..Len(row)] ==
          IF k = 0 THEN 0 ELSE PieceLength(row[Len(row) - k + 1]) + total[k - 1]
    IN  total

Codes(how, row) == LastCodes(how, row)[Len(row)]
Total(row) == LastLengths(row)[Len(row)]

DeltaCode(how, size, row) == VarCode[size] \o VarCode[Total(row)] \o Codes(how, row)

\* The delta that is sent.
Delta == DeltaCode(coded, parent, script)

\* The header, with the hash of the parent.
SentHeader ==
    HeaderCode(object.type, object.length)
        \o IF IsDelta THEN [i \in 1..HashLength |-> 255] ELSE <<>>

\* The stream begins with the bytes of zlib.
Stream == SentHeader \o <<120, 156>>
-----------------------------------------------------------------------------
(***************************************************************************)
(* The parsers.                                                            *)
(***************************************************************************)

\* pack_file_variable_length: bytes with their first bit set, and one without.
\* The values fit into 64 bits.
Ends(s) == {i \in DOMAIN s : s[i] < 128}

Last(s) == Min(Ends(s))

\* Mutant: the first byte is the highest.
LengthFromTop(s) ==
    LET value[k \in 0..Last(s)] == IF k = 0 THEN 0 ELSE (s[k] % 128) + 128 * value[k - 1]
    IN  value[Last(s)]

\* What the last k bytes of the first n stand for.
LastBytes(s, n) ==
    LET value[k \in 0..n] ==
          IF k = 0 THEN 0 ELSE (s[n - k + 1] % 128) + 128 * value[k - 1]
    IN  value

VariableLength(s) == LastBytes(s, Last(s))[Last(s)]

AfterLength(s) == SubSeq(s, Last(s) + 1, Len(s))

\* pack_file_object_header: a first byte, a length behind it if its first bit
\* is set, and the hash of the parent of a delta.
Type(s) == (s[1] \div 16) % 8
IsLong(s) == s[1] >= 128

LengthBytes(s) == IF IsLong(s) THEN Last(Tail(s)) ELSE 0
HashBytes(s) == IF Type(s) = 7 THEN HashLength ELSE 0

\* It is not Incomplete.
HasHeader(s) ==
    /\ s # <<>>
    /\ IsLong(s) => Ends(Tail(s)) # {}
    /\ Len(s) >= 1 + LengthBytes(s) + HashBytes(s)

ObjectLength(s) ==
    (s[1] % 16) + (IF IsLong(s) THEN 16 * VariableLength(Tail(s)) ELSE 0)

\* delta_instruction: bits 0..3 of the first byte say which bytes of the
\* offset follow, bits 4..6 which of the length; the last byte is the highest.
Has(s, i) == (s[1] \div <<1, 2, 4, 8, 16, 32, 64>>[i + 1]) % 2 = 1
Given(s) == {i \in 0..6 : Has(s, i)}
Needs(s) == IF s[1] >= 128 THEN Cardinality(Given(s)) ELSE s[1]

\* A byte that is not given is 0.
Value(s, i) == IF i \in Given(s) THEN s[1 + UpTo(Given(s), i)] ELSE 0

Offset(s) ==
    Value(s, 0) + 256 * (Value(s, 1) + 256 * (Value(s, 2) + 256 * Value(s, 3)))
CopyLength(s) == Value(s, 4) + 256 * (Value(s, 5) + 256 * Value(s, 6))

\* Mutant: a length of 0 is taken for what it is.
CopyAsGiven(s) == [from |-> "parent", offset |-> Offset(s), length |-> CopyLength(s)]

Copy(s) ==
    [from |-> "parent", offset |-> Offset(s),
     length |-> IF CopyLength(s) = 0 THEN 65536 ELSE CopyLength(s)]

Insert(s) == [from |-> "delta", data |-> SubSeq(s, 2, 1 + Needs(s))]

Instruction(s) == IF s[1] >= 128 THEN Copy(s) ELSE Insert(s)
-----------------------------------------------------------------------------
ObjectInit ==
    /\ coded \in {"all", "short"}
    /\ parent \in ParentLengths /\ base \in ParentLengths
    /\ \/ script \in Scripts /\ object = [type |-> 7, length |-> Len(Delta)]
       \/ script = <<>> /\ object \in Plain
    /\ came = 0
    /\ kept = 0 /\ rest = <<>>
    /\ read = [type |-> 0, length |-> 0, at |-> 0]
    /\ announced = 0 /\ written = 0 /\ pieces = <<>>
    /\ stage = "header"

\* read() of GitPackFileReader with what has come: nothing is read of a header
\* that is incomplete; one of another type is refused.
ReceiveHeader ==
    /\ stage = "header"
    /\ \E n \in came + 1..Len(Stream) :
        /\ came' = n
        /\ LET s == SubSeq(Stream, 1, n) IN
            IF ~HasHeader(s) THEN UNCHANGED <<read, stage>>
            ELSE IF Type(s) \in {1, 2, 3, 4, 7}
            THEN /\ read' = [type |-> Type(s), length |-> ObjectLength(s),
                             at |-> 1 + LengthBytes(s) + HashBytes(s)]
                 /\ stage' = IF Type(s) = 7 THEN "inflate" ELSE "stored"
            ELSE stage' = "failed" /\ UNCHANGED read
    /\ UNCHANGED <<sentVars, kept, rest, madeVars>>

\* The delta is stored, and found again when its parent is there.
Store ==
    /\ stage = "inflate"
    /\ kept' \in 0..Len(Delta)
    /\ rest' = SubSeq(Delta, 1, kept')
    /\ stage' = "lengths"
    /\ UNCHANGED <<sentVars, came, read, madeVars>>

\* The length of the parent is not looked at; a missing one is a panic.
ReadLengths ==
    /\ stage = "lengths"
    /\ IF Ends(rest) = {} \/ Ends(AfterLength(rest)) = {}
       THEN stage' = "panic" /\ UNCHANGED <<rest, announced>>
       ELSE /\ announced' = VariableLength(AfterLength(rest))
            /\ rest' = AfterLength(AfterLength(rest))
            /\ stage' = "instructions"
    /\ UNCHANGED <<sentVars, came, kept, read, written, pieces>>

\* An instruction that is incomplete, or copies from behind the parent, is a
\* panic.
Apply ==
    /\ stage = "instructions"
    /\ rest # <<>>
    /\ IF Len(rest) < 1 + Needs(rest)
       THEN stage' = "panic" /\ UNCHANGED <<rest, written, pieces>>
       ELSE LET p == Instruction(rest) IN
            IF p.from = "parent" /\ p.offset + p.length > base
            THEN stage' = "panic" /\ UNCHANGED <<rest, written, pieces>>
            ELSE /\ pieces' = Append(pieces, p)
                 /\ written' = written + PieceLength(p)
                 /\ rest' = SubSeq(rest, 2 + Needs(rest), Len(rest))
                 /\ UNCHANGED stage
    /\ UNCHANGED <<sentVars, came, kept, read, announced>>

EndDelta ==
    /\ stage = "instructions"
    /\ rest = <<>>
    /\ stage' = IF written = announced THEN "done" ELSE "failed"
    /\ UNCHANGED <<sentVars, came, kept, rest, read, madeVars>>

ObjectNext == ReceiveHeader \/ Store \/ ReadLengths \/ Apply \/ EndDelta

ObjectSpec == ObjectInit /\ [][ObjectNext]_objectVars
-----------------------------------------------------------------------------
(***************************************************************************)
(* Properties.                                                             *)
(***************************************************************************)

\* A header is read as soon as its last byte has come and not before, with
\* the type and length that were sent, and nothing of the stream behind it is
\* taken, wherever messages end.
HeaderIsExact ==
    /\ stage = "header" => came < Len(SentHeader)
    /\ stage \notin {"header", "failed"} =>
        /\ came >= Len(SentHeader)
        /\ read.at = Len(SentHeader)
        /\ read.type = object.type
        /\ read.length = object.length
    /\ stage = "failed" /\ ~IsDelta => object.type \notin {1, 2, 3, 4}

FitsInto(n) == \A i \in DOMAIN script :
    script[i].from = "parent" => script[i].offset + script[i].length <= n

\* A delta makes the pieces it stands for or nothing: what is cut off at any
\* byte, or reaches behind its parent, is noticed, and all else is made.
DeltaIsExact ==
    /\ stage = "done" => pieces = script
    /\ stage = "instructions" =>
        \E k \in 0..Len(script) : pieces = SubSeq(script, 1, k)
    /\ stage \in {"panic", "failed"} /\ IsDelta => kept < Len(Delta) \/ ~FitsInto(base)
-----------------------------------------------------------------------------
(***************************************************************************)
(* The inductive invariant.                                                *)
(***************************************************************************)

ObjectTypes ==
    /\ object \in [type : 0..7, length : Nat]
    /\ script \in Seq(Piece) /\ coded \in {"all", "short"}
    /\ parent \in Nat /\ base \in Nat
    /\ came \in 0..Len(Stream) /\ kept \in 0..Len(Delta)
    /\ stage \in {"header", "stored", "inflate", "lengths", "instructions",
                  "done", "failed", "panic"}
    /\ stage \in {"inflate", "lengths", "instructions", "done", "panic"} => IsDelta

\* What is left of a code that was cut off as the delta was.
LeftOf(code) ==
    \E n \in 0..Len(code) :
        rest = SubSeq(code, 1, n) /\ Len(code) - n = Len(Delta) - kept

\* The first k pieces are made, and the codes of the others are left.
HasMade(k) ==
    LET left == Len(script) - k IN
    /\ pieces = SubSeq(script, 1, k)
    /\ written \in Nat
    /\ written + LastLengths(script)[left] = Total(script)
    /\ LeftOf(LastCodes(coded, script)[left])

DeltaInv ==
    /\ stage \in {"header", "inflate", "lengths"} => pieces = <<>> /\ written = 0
    /\ stage = "lengths" => LeftOf(Delta)
    /\ stage = "instructions" =>
        /\ announced = Total(script)
        /\ \E k \in 0..Len(script) : HasMade(k)

ObjectInv == ObjectTypes /\ HeaderIsExact /\ DeltaInv /\ DeltaIsExact
=============================================================================
