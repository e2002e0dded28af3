------------------------------ MODULE Netascii ------------------------------
(***************************************************************************)
(* Text transfers of the TFTP server (Assignment_3/lib.c): a client writes *)
(* a file, in netascii or octet mode, write_data_to_file converts the      *)
(* blocks, and the file is read back in netascii through read_block, byte  *)
(* by byte, as the two loops go.  Block numbers, losses and retries are    *)
(* those of TftpWrq and TftpRrq; here every block arrives once.  The       *)
(* client converts between its file and netascii as the protocol says      *)
(* (external).                                                             *)
(***************************************************************************)
EXTENDS Integers, Sequences, FiniteSets, SequencesExt

CONSTANTS
    MAXBUFLEN,   \* bytes of a block: 512 in the code
    Header,      \* bytes of a packet before its payload: 4 in the code
    Bytes,       \* what a file may consist of
    MaxLen       \* its length (bound of the model)

ASSUME NetasciiAssumption ==
    /\ MAXBUFLEN \in Nat /\ Header \in 1..MAXBUFLEN /\ MaxLen \in Nat
    /\ Bytes \subseteq {"a", "CR", "LF", "NUL", "FF"}

None == "none"

VARIABLES
    pc,          \* "recv", "write" (write_data_to_file), "read" (read_block), "done"
    file,        \* the client's file
    mode,        \* mode of its write request
    sent,        \* bytes of its form on the way that were sent
    buf,         \* the payload of the packet, and the byte behind it
    numbytes,    \* loop counter of write_data_to_file
    stored,      \* the server's file
    pos,         \* bytes of it that getc returned
    nextchar,
    block,       \* the block that read_block fills
    blocks       \* the blocks sent to the client

vars == <<pc, file, mode, sent, buf, numbytes, stored, pos, nextchar, block, blocks>>

\* Netascii: a line feed travels as CR LF, a carriage return as CR NUL.
Netascii(b) == CASE b = "LF" -> <<"CR", "LF">>
                 [] b = "CR" -> <<"CR", "NUL">>
                 [] OTHER    -> <<b>>
Encoded(f) == FlattenSeq([i \in DOMAIN f |-> Netascii(f[i])])

\* The client's way back: CR and the byte behind it are one byte of the file.
Decode(acc, b) ==
    IF acc # <<>> /\ Last(acc) = "pending"
    THEN Append(Front(acc), IF b = "LF" THEN "LF" ELSE "CR")
    ELSE Append(acc, IF b = "CR" THEN "pending" ELSE b)
Decoded(bytes) ==
    LET upto[n \in 0..Len(bytes)] ==
            IF n = 0 THEN <<>> ELSE Decode(upto[n - 1], bytes[n])
    IN upto[Len(bytes)]

\* The bytes that travel: the file's, converted in netascii mode.
Form == IF mode = "netascii" THEN Encoded(file) ELSE file

Init ==
    /\ pc = "recv"
    /\ file \in UNION {[1..n -> Bytes] : n \in 0..MaxLen}
    /\ mode \in {"netascii", "octet"}
    /\ sent = 0
    /\ buf = <<>>
    /\ numbytes = 0
    /\ stored = <<>>
    /\ pos = 0
    /\ nextchar = None
    /\ block = <<>>
    /\ blocks = <<>>

request == <<file, mode>>
reading == <<pos, nextchar, block, blocks>>

-----------------------------------------------------------------------------
(* The client's write request *)

\* A DATA packet: parse_data_packet moves the payload to the front of the buffer.  The
\* byte behind it is left from the packet: of the payload, or of a header.
Receive ==
    /\ pc = "recv"
    /\ LET payload == SubSeq(Form, sent + 1,
                             IF sent + MAXBUFLEN < Len(Form) THEN sent + MAXBUFLEN
                                                             ELSE Len(Form))
           behind  == IF Len(payload) >= Header
                      THEN {payload[Len(payload) - Header + 1]} ELSE Bytes IN
       /\ \E b \in behind : buf' = Append(payload, b)
       /\ sent' = sent + Len(payload)
    /\ numbytes' = 0
    /\ pc' = "write"
    /\ UNCHANGED <<request, stored, reading>>

\* (Variants named Faulty... seed a fault and are used by no action.)
FaultyPutc(c, n) ==
    /\ stored' = Append(stored, c)
    /\ numbytes' = numbytes + 1
putc(c, n) ==
    /\ stored' = Append(stored, c)
    /\ numbytes' = numbytes + n

\* An iteration of write_data_to_file; _nextchar is always -1.
WriteByte ==
    /\ pc = "write" /\ mode = "netascii" /\ numbytes < Len(buf) - 1
    /\ LET c    == buf[numbytes + 1]
           next == buf[numbytes + 2] IN
       /\ c # "FF"
       /\ \/ c = "CR" /\ next = "NUL" /\ putc("CR", 2)
          \/ c = "CR" /\ next = "LF" /\ putc("LF", 2)
          \/ c = "CR" /\ next \notin {"NUL", "LF"} /\ putc("CR", 1)
          \/ c # "CR" /\ putc(c, 1)
    /\ UNCHANGED <<pc, request, sent, buf, reading>>

\* A char of value -1 compares equal to EOF.
GivesUp ==
    mode = "netascii" /\ numbytes < Len(buf) - 1 /\ buf[numbytes + 1] = "FF"

\* In octet mode fwrite takes the block as it is.
WriteBlock ==
    /\ pc = "write" /\ mode = "octet" /\ numbytes < Len(buf) - 1
    /\ stored' = stored \o Front(buf)
    /\ numbytes' = Len(buf) - 1
    /\ UNCHANGED <<pc, request, sent, buf, reading>>

\* write_data_to_file returns; a short block ends the transfer.
Written ==
    /\ pc = "write"
    /\ numbytes >= Len(buf) - 1 \/ GivesUp
    /\ pc' = IF Len(buf) - 1 < MAXBUFLEN THEN "read" ELSE "recv"
    /\ UNCHANGED <<request, sent, buf, numbytes, stored, reading>>

-----------------------------------------------------------------------------
(* The client's read request *)

fill(c, next, n) ==
    /\ block' = Append(block, c)
    /\ nextchar' = next
    /\ pos' = pos + n

\* An iteration of read_block: what is pending, or the next byte of the file.
ReadByte ==
    /\ pc = "read" /\ Len(block) < MAXBUFLEN
    /\ \/ nextchar # None /\ fill(nextchar, None, 0)
       \/ /\ nextchar = None /\ pos < Len(stored)
          /\ LET c == stored[pos + 1] IN
             \/ c = "LF" /\ fill("CR", "LF", 1)
             \/ c = "CR" /\ fill("CR", "NUL", 1)
             \/ c \notin {"CR", "LF", "FF"} /\ fill(c, None, 1)
    /\ UNCHANGED <<pc, request, sent, buf, numbytes, stored, blocks>>

\* getc returned EOF, or a byte that is taken for it.
AtEOF == nextchar = None /\ (pos < Len(stored) => stored[pos + 1] = "FF")

FaultyPending == None
Pending == nextchar

\* read_block returns and the block is sent; a short one is the last.  What is pending
\* waits for the next call.
Send ==
    /\ pc = "read"
    /\ Len(block) = MAXBUFLEN \/ AtEOF
    /\ blocks' = Append(blocks, block)
    /\ block' = <<>>
    /\ nextchar' = Pending
    /\ pos' = IF Len(block) < MAXBUFLEN /\ pos < Len(stored) THEN pos + 1 ELSE pos
    /\ pc' = IF Len(block) < MAXBUFLEN THEN "done" ELSE "read"
    /\ UNCHANGED <<request, sent, buf, numbytes, stored>>

Next == Receive \/ WriteByte \/ WriteBlock \/ Written \/ ReadByte \/ Send

Spec == Init /\ [][Next]_vars
-----------------------------------------------------------------------------
\* Position of byte i of file f in its netascii form, and whether the end of a block
\* comes between the two bytes that it becomes.
Place(f, i) == Len(Encoded(SubSeq(f, 1, i - 1))) + 1
Cut(f, i)   == f[i] \in {"CR", "LF"} /\ Place(f, i) % MAXBUFLEN = 0

\* A byte at place p is lost behind a byte 0xFF in the same block.
Lost(f, p) == \E q \in 1..p : /\ Encoded(f)[q] = "FF"
                              /\ (q - 1) \div MAXBUFLEN = (p - 1) \div MAXBUFLEN

\* The first byte of a cut line end is stored as the byte behind the block tells.
CutEnd(f, p) == IF Lost(f, p) THEN <<>>
                ELSE IF Encoded(f)[p - Header + 1] = "LF" THEN <<"LF">> ELSE <<"CR">>

\* What byte i of the file becomes in the server's file.
Kept(f, i) ==
    CASE Cut(f, i) -> CutEnd(f, Place(f, i)) \o <<IF f[i] = "LF" THEN "LF" ELSE "NUL">>
      [] ~ Cut(f, i) /\ Lost(f, Place(f, i)) -> <<>>
      [] OTHER -> <<f[i]>>

\* What is stored of a file in octet mode is the file.  In netascii mode two things are
\* not: a line end that the end of a block cuts in two becomes two bytes, the first of
\* which depends on a byte that has nothing to do with it, and a byte 0xFF takes the rest
\* of its block with it.
StoredExactly ==
    pc \in {"read", "done"} =>
        stored = IF mode = "octet" THEN file
                 ELSE FlattenSeq([i \in DOMAIN file |-> Kept(file, i)])

\* What is read back is what is stored, up to the first byte 0xFF; a pair that the end of
\* a block cuts is completed in the next, even at the end of the file, and every block
\* but the last is full.
ReadExactly ==
    LET clean == SelectInSeq(stored, LAMBDA b : b = "FF") IN
    pc = "done" =>
        /\ Decoded(FlattenSeq(blocks)) =
                IF clean = 0 THEN stored ELSE SubSeq(stored, 1, clean - 1)
        /\ \A k \in DOMAIN blocks : Len(blocks[k]) = MAXBUFLEN <=> k < Len(blocks)

\* A client that writes a file and reads it back in netascii gets its file, if and only
\* if it holds no byte 0xFF and no end of a block cut a line end on the way in.
RoundTrip ==
    pc = "done" =>
        (Decoded(FlattenSeq(blocks)) = file
            <=> \A i \in DOMAIN file :
                    file[i] # "FF" /\ (mode = "netascii" => ~ Cut(file, i)))
=============================================================================
