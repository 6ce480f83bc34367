------------------------------ MODULE GitFetch -------------------------------
(***************************************************************************)
(* Fetching from a git server over SSH: git_list_latest and git_clone up   *)
(* to the index of the received pack                                       *)
(* (crates/git-repositories/src/git/mod.rs), the buffer of the SSH client  *)
(* (git/ssh.rs), and the readers that parse what it holds                  *)
(* (git/pkt_line_reader.rs, git/git_pack_file_reader.rs, git/parsers.rs).  *)
(*                                                                         *)
(* The channel brings the answer of the server in messages that may end    *)
(* anywhere.  The answer is a row of units, known by their positions: the  *)
(* lines of the listing, the flush, the NAK, the header of the pack, and   *)
(* for each object its header and the pieces of its zlib stream; the       *)
(* checksum of the pack ends it.  A unit of which only a part has come is  *)
(* as good as none: no parser takes it, and the buffer keeps it.  A server *)
(* that sends something else ends the call as an exit status does.         *)
(***************************************************************************)
EXTENDS Naturals, Sequences, Functions

CONSTANTS
    Ref,         \* names of references
    Branch,      \* those under refs/heads/
    HeadRef,     \* the reference HEAD
    Hash,        \* of commits
    Listing,     \* the references the server lists, with their hashes
    Objects,     \* number of objects in the pack
    ObjectAt,    \* where the header of each object stands, and the checksum
    RevisionLimit,  \* REVISION_LIMIT, 4096
    NoHash

ASSUME RefAssumption == Branch \subseteq Ref /\ HeadRef \in Ref \ Branch /\ NoHash \notin Hash
\* A server lists HEAD once.
ASSUME ListingAssumption ==
    /\ Listing \in Seq([ref : Ref, hash : Hash])
    /\ \A i, j \in DOMAIN Listing : Listing[i].ref = HeadRef /\ Listing[j].ref = HeadRef => i = j
ASSUME RevisionLimitAssumption == RevisionLimit \in Nat

FlushAt == Len(Listing) + 1
NakAt == FlushAt + 1
HeaderAt == FlushAt + 2

ASSUME PackAssumption ==
    /\ Objects \in Nat \ {0}
    /\ ObjectAt \in [1..Objects + 1 -> Nat]
    /\ ObjectAt[1] = HeaderAt + 1
    /\ \A i, j \in 1..Objects + 1 : i < j => ObjectAt[i] + 1 < ObjectAt[j]

ChecksumAt == ObjectAt[Objects + 1]
Pieces(i) == ObjectAt[i + 1] - ObjectAt[i] - 1

\* The object a reader takes the start of the NAK for: its first byte, "0", is
\* the header of an empty blob.
Junk == Objects + 1

VARIABLES
    mode,        \* the call: git_list_latest or git_clone
    target,      \* the reference git_clone is to find
    pc,          \* which loop of the call reads
    received,    \* position the channel has come to
    channel,     \* whether the server has closed it, and how
    buffer,      \* what SshClient keeps of the messages
    waiting,     \* read() has tried the buffer and waits for a message
    head,        \* hash of HEAD in the listing
    revisions,   \* result of git_list_latest
    found,       \* found_hash of git_clone
    header,      \* the reader has the header of the pack
    current,     \* the object it decodes
    fed,         \* pieces of it the decoder has been given
    next,        \* next_object_index
    index,       \* the objects in the index
    headerCut    \* a message has ended behind the header of the pack

listVars == <<head, revisions, found>>
packVars == <<header, current, fed, next, index>>
callVars == <<mode, target>>
vars == <<mode, target, pc, received, channel, buffer, waiting, head, revisions,
          found, header, current, fed, next, index, headerCut>>

TypeOK ==
    /\ mode \in {"latest", "clone"}
    /\ target \in Ref
    /\ pc \in {"list", "pack", "flush", "extract", "done", "failed"}
    /\ received \in 0..ChecksumAt
    /\ channel \in {"open", "closed", "error"}
    /\ buffer \in Seq(1..ChecksumAt)
    /\ waiting \in BOOLEAN
    /\ head \in Hash \cup {NoHash}
    /\ revisions \in Seq([ref : Branch, hash : Hash])
    /\ Len(revisions) <= RevisionLimit + 1
    /\ found \in Hash \cup {NoHash}
    /\ header \in BOOLEAN
    /\ current \in 0..Junk
    /\ fed \in Nat
    /\ next \in 0..Objects
    /\ index \in SUBSET (1..Objects)
    /\ headerCut \in BOOLEAN

Init ==
    /\ mode \in {"latest", "clone"}
    /\ target \in Ref
    /\ pc = "list"
    /\ received = 0
    /\ channel = "open"
    /\ buffer = <<>>
    /\ waiting = FALSE
    /\ head = NoHash
    /\ revisions = <<>>
    /\ found = NoHash
    /\ header = FALSE
    /\ current = 0
    /\ fed = 0
    /\ next = 0
    /\ index = {}
    /\ headerCut = FALSE

-----------------------------------------------------------------------------
(***************************************************************************)
(* What a call of SshClient::read makes of the answer of the parser.       *)
(***************************************************************************)

\* Mutant: a unit too many is dropped.
TakeTooMany(input, n) ==
    /\ buffer' = SubSeq(input, n + 2, Len(input))
    /\ waiting' = FALSE

\* The parser has taken the first n units; read() returns.
Take(input, n) ==
    /\ buffer' = SubSeq(input, n + 1, Len(input))
    /\ waiting' = FALSE

\* Mutant: the buffer is tried again before a message has come.
IncompleteRetries(input) ==
    /\ buffer' = input
    /\ waiting' = FALSE

\* Incomplete: everything is kept, whatever the reader has noted of it.
Incomplete(input) ==
    /\ buffer' = input
    /\ waiting' = TRUE

-----------------------------------------------------------------------------
(***************************************************************************)
(* The lines of the listing.  Only branches at the commit of HEAD, which   *)
(* comes first, are passed on.                                             *)
(***************************************************************************)

\* Mutant: any branch is passed on.
PassesAnyBranch(line) == line.ref \in Branch

Passes(line) == line.ref \in Branch /\ line.hash = head

TooMany == Len(revisions) > RevisionLimit

ReadLine(input) ==
    LET line == Listing[input[1]] IN
    /\ pc = "list"
    /\ input[1] < FlushAt
    /\ Take(input, 1)
    /\ head' = IF line.ref = HeadRef THEN line.hash ELSE head
    /\ \/ /\ mode = "latest"
          /\ pc' = IF TooMany THEN "done" ELSE pc
          /\ revisions' = IF Passes(line) /\ ~TooMany
                          THEN Append(revisions, line) ELSE revisions
          /\ UNCHANGED found
       \/ /\ mode = "clone"
          /\ found' = IF Passes(line) /\ line.ref = target THEN line.hash ELSE found
          /\ UNCHANGED <<pc, revisions>>
    /\ UNCHANGED packVars

\* At the flush git_clone asks for what it has found, and the server goes on.
ReadFlush(input) ==
    /\ pc = "list"
    /\ input[1] = FlushAt
    /\ Take(input, 1)
    /\ pc' = CASE mode = "latest" -> "done"
               [] mode = "clone" /\ found # NoHash -> "pack"
               [] OTHER -> "failed"
    /\ UNCHANGED <<listVars, packVars>>

-----------------------------------------------------------------------------
(***************************************************************************)
(* The pack.                                                               *)
(***************************************************************************)

\* The reader of the pack can make something of the input.
Fits(input) ==
    CASE ~header -> input[1] = NakAt
      [] header /\ current = 0 ->
            input[1] = NakAt \/ \E i \in 1..Objects : input[1] = ObjectAt[i]
      [] OTHER ->
            /\ current # Junk
            /\ fed = Pieces(current) \/ input[1] = ObjectAt[current] + fed + 1

\* The reader notes the header before it knows that an object header follows;
\* Incomplete then gives it the NAK and the header once more.
ReadHeader(input) ==
    /\ pc = "pack"
    /\ ~header
    /\ input[1] = NakAt
    /\ \/ /\ Len(input) = 1
          /\ Incomplete(input)
          /\ UNCHANGED <<header, current>>
       \/ /\ Len(input) = 2
          /\ header' = TRUE
          /\ Incomplete(input)
          /\ UNCHANGED current
       \/ /\ Len(input) > 2
          /\ header' = TRUE
          /\ Take(input, 3)
          /\ current' = 1
    /\ UNCHANGED <<pc, listVars, fed, next, index>>

ReadObjectHeader(input) ==
    /\ pc = "pack"
    /\ header
    /\ current = 0
    /\ \/ \E i \in 1..Objects :
             /\ input[1] = ObjectAt[i]
             /\ current' = i
             /\ Take(input, 1)
       \/ /\ input[1] = NakAt
          /\ current' = Junk
          /\ Take(input, 0)
    /\ UNCHANGED <<pc, listVars, header, fed, next, index>>

\* inflate() takes as many pieces as its output has room for.  It may report the
\* end of the stream with the last of them, or only when called once more.
Inflate(input) ==
    /\ pc = "pack"
    /\ header
    /\ current \in 1..Objects
    /\ \E n \in 0..Len(input) :
          /\ n > 0 \/ fed = Pieces(current)
          /\ fed + n <= Pieces(current)
          /\ \A j \in 1..n : input[j] = ObjectAt[current] + fed + j
          /\ Take(input, n)
          /\ \/ /\ n > 0
                /\ fed' = fed + n
                /\ UNCHANGED <<pc, current, next, index>>
             \/ /\ fed + n = Pieces(current)
                /\ index' = index \cup {current}
                /\ next' = next + 1
                /\ current' = 0
                /\ fed' = 0
                /\ pc' = IF next' = Objects THEN "flush" ELSE pc
    /\ UNCHANGED <<listVars, header>>

\* What does not fit, as the rest of a NAK read as the stream of an object, is an
\* error, and read() has taken all of the buffer.
ParseError(input) ==
    /\ pc = "pack"
    /\ ~Fits(input)
    /\ pc' = "failed"
    /\ Take(input, Len(input))
    /\ UNCHANGED <<listVars, packVars>>

-----------------------------------------------------------------------------
(***************************************************************************)
(* The channel.                                                            *)
(***************************************************************************)

Parse(input) ==
    \/ ReadLine(input)
    \/ ReadFlush(input)
    \/ ReadHeader(input)
    \/ ReadObjectHeader(input)
    \/ Inflate(input)
    \/ ParseError(input)

Reading == pc \in {"list", "pack"}

\* A call of read() begins with what is left from the one before.
ReadBuffered ==
    /\ Reading
    /\ ~waiting
    /\ buffer # <<>>
    /\ Parse(buffer)
    /\ UNCHANGED <<callVars, received, channel, headerCut>>

Waits == Reading /\ (waiting \/ buffer = <<>>)

\* The server sends the pack when it is asked for.
Sent == IF pc = "list" THEN FlushAt ELSE ChecksumAt

Message(n) == [i \in 1..n |-> received + i]

\* Mutant: the message takes the place of what is in the buffer.
MessageAlone(n) == Message(n)

Extended(n) == buffer \o Message(n)

Receive ==
    /\ Waits
    /\ channel = "open"
    /\ \E n \in 1..Sent - received :
          /\ received' = received + n
          /\ headerCut' = (headerCut \/ received' = HeaderAt)
          /\ Parse(Extended(n))
    /\ UNCHANGED <<callVars, channel>>

\* Eof and an exit status, after the last unit or before.
Close ==
    /\ channel = "open"
    /\ channel' \in {"closed", "error"}
    /\ UNCHANGED <<callVars, pc, received, buffer, waiting, listVars, packVars, headerCut>>

\* read() returns None: git_list_latest returns what it has, git_clone goes on
\* with its next loop, where read() returns None again.
EndOfChannel ==
    /\ Waits
    /\ channel # "open"
    /\ pc' = CASE channel = "error" -> "failed"
               [] pc = "list" /\ mode = "latest" -> "done"
               [] OTHER -> "flush"
    /\ UNCHANGED <<callVars, received, channel, buffer, waiting, listVars, packVars, headerCut>>

\* Mutants: the number of objects is not compared, or compared with the
\* position of the last one.
CountsNothing == TRUE
CountsFromZero == header => next = Objects - 1

AllObjects == header => next = Objects

\* flush() of the reader of the pack.
Flush ==
    /\ pc = "flush"
    /\ pc' = IF AllObjects THEN "extract" ELSE "failed"
    /\ UNCHANGED <<callVars, received, channel, buffer, waiting, listVars, packVars, headerCut>>

-----------------------------------------------------------------------------
Client == ReadBuffered \/ Receive \/ EndOfChannel \/ Flush
Next == Client \/ Close

Spec == Init /\ [][Next]_vars
FairSpec == Spec /\ WF_vars(Client)

-----------------------------------------------------------------------------
(***************************************************************************)
(* Properties.                                                             *)
(***************************************************************************)

\* The buffer holds what came last, without gaps, and it begins with what the
\* reader comes to next, however messages are cut: no unit is lost, repeated or
\* out of its turn.
NothingLost ==
    /\ Len(buffer) <= received
    /\ \A j \in 1..Len(buffer) : buffer[j] = received - Len(buffer) + j
    /\ pc = "pack" /\ buffer # <<>> /\ ~headerCut => Fits(buffer)

\* git_clone goes on to extract only what it has of a pack in full, or nothing
\* at all; a server that stops in the middle is noticed.
FetchIsComplete ==
    pc = "extract" => index = IF header THEN 1..Objects ELSE {}

\* A clone whose pack has come in full fails only if a message has ended behind
\* the header of the pack; no other place to cut the stream matters.
CutDoesNotMatter ==
    pc = "failed" /\ received = ChecksumAt /\ channel # "error" => headerCut

\* The branches at HEAD among the first n lines, and that revisions has each of
\* some lines once, in the order of the listing.
AtHead(n) == {i \in 1..n : Listing[i].ref \in Branch /\ Listing[i].hash = Listing[1].hash}
Returns(lines) ==
    \E at \in Bijection(DOMAIN revisions, lines) :
        /\ \A i, j \in DOMAIN revisions : i < j => at[i] < at[j]
        /\ \A i \in DOMAIN revisions : revisions[i] = Listing[at[i]]

ListsHead == Listing # <<>> /\ Listing[1].ref = HeadRef

\* git_list_latest returns the branches at HEAD, as long as there are not too
\* many: all of them if the listing has come to its end, or the first ones.
LatestAreBranchesAtHead ==
    pc = "done" /\ ListsHead =>
        \E n \in 0..Len(Listing) :
            /\ n = Len(Listing) \/ TooMany \/ channel # "open"
            /\ Returns(AtHead(n))

\* Once the server has closed the channel, the call comes to its end: what is
\* in the buffer is either parsed or given up.
FetchEnds == channel # "open" ~> pc \in {"extract", "done", "failed"}

-----------------------------------------------------------------------------
(***************************************************************************)
(* The inductive invariant behind NothingLost, FetchIsComplete and         *)
(* CutDoesNotMatter.                                                       *)
(***************************************************************************)

Flags == header \in BOOLEAN /\ waiting \in BOOLEAN /\ headerCut \in BOOLEAN

FetchTypes ==
    /\ Flags
    /\ mode \in {"latest", "clone"}
    /\ pc \in {"list", "pack", "flush", "extract", "done", "failed"}
    /\ received \in Nat
    /\ buffer \in Seq(Nat)
    /\ current \in 0..Junk
    /\ fed \in Nat
    /\ next \in 0..Objects

\* The buffer holds what came last.
Contiguous ==
    /\ Len(buffer) <= received
    /\ \A j \in 1..Len(buffer) : buffer[j] = received - Len(buffer) + j

\* The position the parsers have come to.
Parsed == received - Len(buffer)

\* A message has ended behind the header, which is in the buffer once more.
HeaderAgain == Parsed = FlushAt /\ headerCut

\* Where the reader of the pack stands in it.
Place ==
    /\ index = 1..next
    /\ ~header => next = 0
    /\ pc = "list" => ~header /\ current = 0 /\ fed = 0 /\ received <= FlushAt /\ ~waiting
    /\ pc = "pack" =>
          /\ next < Objects
          /\ current = 0 => fed = 0
          /\ ~header => Parsed = FlushAt /\ current = 0
          /\ header /\ current = 0 =>
                \/ Parsed = ObjectAt[next + 1] - 1
                \/ HeaderAgain
          /\ current \in 1..Objects =>
                /\ current = next + 1
                /\ fed <= Pieces(current)
                /\ Parsed = ObjectAt[current] + fed

\* What can go wrong with a pack that has come in full.
Cuts ==
    /\ received = HeaderAt => headerCut
    /\ current = Junk => headerCut
    /\ waiting => received <= HeaderAt
    /\ pc = "flush" /\ received = ChecksumAt => next = Objects \/ headerCut
    /\ pc = "extract" => AllObjects
    /\ CutDoesNotMatter

FetchInv == FetchTypes /\ Contiguous /\ Place /\ Cuts

\* The inductive invariant behind LatestAreBranchesAtHead: the revisions are
\* those of the lines that have been parsed.
LatestInv ==
    /\ revisions \in Seq([ref : Ref, hash : Hash])
    /\ pc = "list" => Parsed <= Len(Listing)
    /\ pc = "list" /\ ListsHead => head = IF Parsed = 0 THEN NoHash ELSE Listing[1].hash
    /\ pc = "list" /\ mode = "latest" /\ ListsHead => Returns(AtHead(Parsed))
    /\ LatestAreBranchesAtHead
=============================================================================
