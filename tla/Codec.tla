-------------------------------- MODULE Codec --------------------------------
(***************************************************************************)
(* The receiving side of one connection: tcpRead (net/tcpsocket.c) and the *)
(* decoder it drives (net/codec.c), over the buffer of net/buffer.h.       *)
(*                                                                         *)
(* A message is a '*', a tab, four digits that give the length of the      *)
(* whole message, and the words of the command, each after a tab, then a   *)
(* tab and a '!'.  The kernel's receive queue, the socket's peer and the   *)
(* client are the environment.  One action is one call of read, one call   *)
(* of catchOneMessagefromBuffer, one iteration of the loop of              *)
(* parseOneMessage, or the execution of one command.                       *)
(***************************************************************************)
EXTENDS Integers, Sequences, FiniteSets

CONSTANTS
  INIT_BUFFER_SIZE,   \* size of rBuf, the value of rBuflen
  READ_GRANULARITY,   \* what one read asks for, less the bytes carried over
  ARGUMENTCNT,        \* size of one row of argv
  ARGROWS,            \* rows of argv (ARGUMENTCNT/2 in the code)
  PADDING,            \* bytes between rBuf and the pointers of struct buffer
  BEHIND,             \* bound: bytes behind rBuf into which the parser is followed
  Junk,               \* the values tried for a byte of those pointers
  Requests,           \* what a client may send: a command, that is words with tabs
                      \* between them, and what follows its message (a newline, or nothing)
  MaxSent,            \* bound: messages the client sends
  Window,             \* messages the client sends before it waits for a reply
  Fragmented          \* whether a message may arrive in several pieces

Byte == 0..255
NUL == 0
TAB == 9
NEWLINE == 10
BANG == 33
STAR == 42
ZERO == 48
NINE == 57

ASSUME CodecAssumption ==
  /\ INIT_BUFFER_SIZE \in Nat \ {0}
  /\ READ_GRANULARITY = INIT_BUFFER_SIZE
  /\ ARGUMENTCNT \in Nat \ {0}
  /\ ARGROWS \in Nat \ {0}
  /\ PADDING \in Nat
  /\ BEHIND \in Nat
  /\ Junk \subseteq Byte
  /\ Requests \subseteq [command : Seq(Byte), tail : Seq(Byte)]
  /\ MaxSent \in Nat
  /\ Window \in Nat
  /\ Fragmented \in BOOLEAN

\* The command names, shortened to one letter.
SetWord == <<115>>
GetWord == <<103>>
ShutdownWord == <<113>>

VARIABLES
  sent,       \* history: the commands the client has sent
  wire,       \* bytes sent and not yet arrived
  queue,      \* the socket's receive queue
  peer,       \* "open", "closed" (FIN seen) or "reset"
  executed,   \* history: the commands handed to kernel/execcommand.c
  replies,    \* how many replies were written
  pc,         \* where the worker is; it stands for parseFlag, which is 0 when a
              \* message was parsed ("exec") and 1 or -1 when not ("read")
  rBuf, readDatalen, parsedLen, corruptMessagelen, argv,       \* of struct buffer
  cursor, argBeginpos, messageBeginpos,                        \* likewise, as offsets
  argLen, preArgLen, separLen, argCnt                          \* locals of parseOneMessage

stream == <<sent, wire, queue, peer>>
results == <<executed, replies>>
lengths == <<readDatalen, parsedLen, corruptMessagelen>>
parser == <<cursor, argBeginpos, messageBeginpos, argLen, preArgLen, separLen, argCnt>>
worker == <<results, pc, rBuf, lengths, argv, parser>>
vars == <<stream, worker>>

------------------------------------------------------------------------------
(* The client, as tests/testperfset/makecommand.c builds its messages. *)

makeCommand(command) ==
  LET totLen == 7 + Len(command) + 2
  IN  <<STAR, TAB, ((totLen \div 1000) % 10) + ZERO, ((totLen \div 100) % 10) + ZERO,
        ((totLen \div 10) % 10) + ZERO, (totLen % 10) + ZERO, TAB>>
        \o command \o <<TAB, BANG>>

Send(request) ==
  /\ peer = "open"
  /\ Len(sent) < MaxSent
  /\ Len(sent) - replies < Window
  /\ sent' = Append(sent, request.command)
  /\ wire' = wire \o makeCommand(request.command) \o request.tail
  /\ UNCHANGED <<queue, peer>>

\* The n first bytes on their way arrive; all of them if nothing splits them.
Arrive(n) ==
  /\ n \in 1..Len(wire)
  /\ Fragmented \/ n = Len(wire)
  /\ queue' = queue \o SubSeq(wire, 1, n)
  /\ wire' = SubSeq(wire, n + 1, Len(wire))
  /\ UNCHANGED <<sent, peer>>

\* The peer closes after its last byte, or resets and unread bytes are lost.
Hangup ==
  /\ peer = "open"
  /\ \/ wire = <<>> /\ peer' = "closed" /\ UNCHANGED <<wire, queue>>
     \/ peer' = "reset" /\ wire' = <<>> /\ queue' = <<>>
  /\ UNCHANGED sent

------------------------------------------------------------------------------
(* tcpRead *)

\* The bytes of rBuf, and of argv, row after row.
BufIndex == 0..(INIT_BUFFER_SIZE - 1)
ArgvIndex == 0..(ARGROWS * ARGUMENTCNT - 1)

\* initBuf
Init ==
  /\ sent = <<>> /\ wire = <<>> /\ queue = <<>> /\ peer = "open"
  /\ executed = <<>> /\ replies = 0
  /\ pc = "poll"
  /\ rBuf = [i \in BufIndex |-> NUL]
  /\ readDatalen = 0 /\ parsedLen = 0 /\ corruptMessagelen = 0
  /\ argv = [i \in ArgvIndex |-> NUL]
  /\ cursor = 0 /\ argBeginpos = 0 /\ messageBeginpos = 0
  /\ argLen = 0 /\ preArgLen = 0 /\ separLen = 0 /\ argCnt = 0

\* epoll reports the descriptor and tcpReadCallback calls tcpRead.
Readable ==
  /\ pc = "poll"
  /\ queue # <<>> \/ peer # "open"
  /\ pc' = "read"
  /\ UNCHANGED <<stream, results, rBuf, lengths, argv, parser>>

\* Mutant: the bytes carried over are not taken off.
ReadCount_Full == READ_GRANULARITY

\* rpos = rBuf + corruptMessagelen; what is asked for at rpos
ReadCount == READ_GRANULARITY - corruptMessagelen

\* The memset before every read: the bytes from rpos on are cleared.
Cleared == [i \in BufIndex |-> IF i < corruptMessagelen THEN rBuf[i] ELSE NUL]

\* What the nread first bytes of the queue leave in rBuf.
Filled(nread) ==
  [i \in BufIndex |-> IF i \in corruptMessagelen..(corruptMessagelen + nread - 1)
                      THEN queue[i - corruptMessagelen + 1] ELSE Cleared[i]]

\* read returns data.
ReadData ==
  /\ pc = "read"
  /\ queue # <<>>
  /\ ReadCount > 0
  /\ LET nread == IF Len(queue) < ReadCount THEN Len(queue) ELSE ReadCount
     IN  /\ rBuf' = Filled(nread)
         /\ queue' = SubSeq(queue, nread + 1, Len(queue))
         /\ readDatalen' = nread
  /\ parsedLen' = 0
  /\ pc' = "decod"
  /\ UNCHANGED <<sent, wire, peer, results, corruptMessagelen, argv, parser>>

\* read returns 0, at the end of the stream or because it was asked for
\* nothing: tcpReadCallback drops the connection.
ReadEnd ==
  /\ pc = "read"
  /\ ReadCount = 0 \/ (queue = <<>> /\ peer = "closed")
  /\ rBuf' = Cleared
  /\ readDatalen' = 0
  /\ parsedLen' = 0
  /\ pc' = "closed"
  /\ UNCHANGED <<stream, results, corruptMessagelen, argv, parser>>

\* read fails with EAGAIN: back to the event loop.
ReadAgain ==
  /\ pc = "read"
  /\ ReadCount > 0
  /\ queue = <<>>
  /\ peer = "open"
  /\ rBuf' = Cleared
  /\ readDatalen' = -1
  /\ parsedLen' = 0
  /\ pc' = "poll"
  /\ UNCHANGED <<stream, results, corruptMessagelen, argv, parser>>

\* read fails with another error, once; tcpRead goes on to decode all the same.
ReadError ==
  /\ pc = "read"
  /\ ReadCount > 0
  /\ peer = "reset"
  /\ peer' = "closed"
  /\ rBuf' = Cleared
  /\ readDatalen' = -1
  /\ parsedLen' = 0
  /\ pc' = "decod"
  /\ UNCHANGED <<sent, wire, queue, results, corruptMessagelen, argv, parser>>

------------------------------------------------------------------------------
(* catchOneMessagefromBuffer *)

\* After the '*' and the tab; counted to the end of rBuf.
parseRemainlen == INIT_BUFFER_SIZE - (parsedLen + 2)

HeaderAt(i) == rBuf[parsedLen + 2 + i]

messageLen == (HeaderAt(0) - ZERO) * 1000 + (HeaderAt(1) - ZERO) * 100
                + (HeaderAt(2) - ZERO) * 10 + (HeaderAt(3) - ZERO)

\* Mutant: the '*' is looked for one byte late.
AtMessage_Late == parsedLen < readDatalen /\ rBuf[parsedLen + 1] = STAR

AtMessage == parsedLen < readDatalen /\ rBuf[parsedLen] = STAR
HeaderInBuffer == parseRemainlen > 6 - 2
LengthIsNumber == \A i \in 0..3 : HeaderAt(i) \in ZERO..NINE

\* Mutant: a message that ends with rBuf is taken for one that goes on behind it.
MessageInBuffer_Less == parseRemainlen > messageLen - 2

MessageInBuffer == parseRemainlen >= messageLen - 2

\* Nothing that begins like a message: what is left of the read is dropped.
NoMessage ==
  /\ pc = "decod"
  /\ AtMessage => (HeaderInBuffer /\ ~LengthIsNumber)
  /\ parsedLen' = 0
  /\ corruptMessagelen' = 0
  /\ pc' = "read"
  /\ UNCHANGED <<stream, results, rBuf, readDatalen, argv, parser>>

\* The last len bytes of rBuf moved to its front, after the rest was cleared.
Moved(len) ==
  [i \in BufIndex |-> IF i < len THEN rBuf[INIT_BUFFER_SIZE - len + i]
                      ELSE IF i < INIT_BUFFER_SIZE - len THEN NUL ELSE rBuf[i]]

\* Mutant: the '*' is left behind.
repairLastCorruptMessage_OffByOne ==
  /\ pc = "decod"
  /\ AtMessage
  /\ HeaderInBuffer => (LengthIsNumber /\ ~MessageInBuffer)
  /\ rBuf' = Moved(parseRemainlen + 1)
  /\ corruptMessagelen' = parseRemainlen + 1
  /\ parsedLen' = 0
  /\ pc' = "read"
  /\ UNCHANGED <<stream, results, readDatalen, argv, parser>>

\* The message goes on behind the end of rBuf: repairLastCorruptMessage moves
\* what is there of it to the front and the next read appends to it.
repairLastCorruptMessage ==
  /\ pc = "decod"
  /\ AtMessage
  /\ HeaderInBuffer => (LengthIsNumber /\ ~MessageInBuffer)
  /\ rBuf' = Moved(parseRemainlen + 2)
  /\ corruptMessagelen' = parseRemainlen + 2
  /\ parsedLen' = 0
  /\ pc' = "read"
  /\ UNCHANGED <<stream, results, readDatalen, argv, parser>>

\* The message is taken to be in rBuf: parseOneMessage is called.
CatchMessage ==
  /\ pc = "decod"
  /\ AtMessage
  /\ HeaderInBuffer
  /\ LengthIsNumber
  /\ MessageInBuffer
  /\ parsedLen' = parsedLen + 6
  /\ cursor' = parsedLen + 6
  /\ argBeginpos' = parsedLen + 6
  /\ messageBeginpos' = parsedLen
  /\ argLen' = 0 /\ preArgLen' = 0 /\ separLen' = 0 /\ argCnt' = 0
  /\ pc' = "parse"
  /\ UNCHANGED <<stream, results, rBuf, readDatalen, corruptMessagelen, argv>>

------------------------------------------------------------------------------
(* parseOneMessage *)

\* The i-th byte from the beginning of rBuf.  The loop has no bound: behind rBuf it
\* reads padding, which initBuf has cleared, and then pointers, of any value.
ByteAt(i, junk) ==
  IF i < INIT_BUFFER_SIZE THEN rBuf[i]
  ELSE IF i < INIT_BUFFER_SIZE + PADDING THEN NUL
  ELSE junk

Followed == cursor < INIT_BUFFER_SIZE + PADDING + BEHIND

\* while (parsedLen != readDatalen && cursor), and what the byte at the cursor may be
Parsing == pc = "parse" /\ parsedLen # readDatalen
AtByte(bytes) == Followed /\ \E junk \in Junk : ByteAt(cursor, junk) \in bytes

Advance == preArgLen + separLen

\* Mutant: the row is not cleared first.
CopyArgument_NoClear(clear, junk) ==
  LET row == argCnt * ARGUMENTCNT
      from == argBeginpos + Advance
  IN  [i \in ArgvIndex |->
         IF i \in row..(row + argLen - 1) THEN ByteAt(from + i - row, junk) ELSE argv[i]]

\* memset (if clear) and memcpy of the argument into its row.
CopyArgument(clear, junk) ==
  LET row == argCnt * ARGUMENTCNT
      from == argBeginpos + Advance
  IN  [i \in ArgvIndex |->
         IF i \in row..(row + argLen - 1) THEN ByteAt(from + i - row, junk)
         ELSE IF clear /\ i \in row..(row + ARGUMENTCNT - 1) THEN NUL
         ELSE argv[i]]

ArgumentFits == argCnt * ARGUMENTCNT + argLen <= ARGROWS * ARGUMENTCNT

\* A tab before an argument.
ParseSeparator ==
  /\ Parsing
  /\ AtByte({TAB})
  /\ argLen = 0
  /\ cursor' = cursor + 1
  /\ preArgLen' = preArgLen + 1
  /\ UNCHANGED <<stream, results, pc, rBuf, lengths, argv, argBeginpos, messageBeginpos, argLen, separLen, argCnt>>

\* Mutant: the loop is not left after the fourth argument.
ParseArgument_NoLimit ==
  /\ Parsing
  /\ AtByte({TAB})
  /\ argLen # 0
  /\ ArgumentFits
  /\ \E junk \in Junk : argv' = CopyArgument(TRUE, junk)
  /\ cursor' = cursor + 1
  /\ argBeginpos' = argBeginpos + Advance
  /\ parsedLen' = parsedLen + Advance
  /\ preArgLen' = argLen /\ argLen' = 0 /\ separLen' = 1 /\ argCnt' = argCnt + 1
  /\ UNCHANGED <<stream, results, pc, rBuf, readDatalen, corruptMessagelen, messageBeginpos>>

\* Mutant: the separator after the argument is not counted.
ParseArgument_NoSeparator ==
  /\ Parsing
  /\ AtByte({TAB})
  /\ argLen # 0
  /\ ArgumentFits
  /\ \E junk \in Junk : argv' = CopyArgument(TRUE, junk)
  /\ cursor' = cursor + 1
  /\ argBeginpos' = argBeginpos + Advance
  /\ parsedLen' = parsedLen + Advance
  /\ preArgLen' = argLen /\ argLen' = 0 /\ separLen' = 0 /\ argCnt' = argCnt + 1
  /\ pc' = IF argCnt' > 3 THEN "exec" ELSE "parse"
  /\ UNCHANGED <<stream, results, rBuf, readDatalen, corruptMessagelen, messageBeginpos>>

\* A tab after an argument; the loop is left after the fourth.
ParseArgument ==
  /\ Parsing
  /\ AtByte({TAB})
  /\ argLen # 0
  /\ ArgumentFits
  /\ \E junk \in Junk : argv' = CopyArgument(TRUE, junk)
  /\ cursor' = cursor + 1
  /\ argBeginpos' = argBeginpos + Advance
  /\ parsedLen' = parsedLen + Advance
  /\ preArgLen' = argLen /\ argLen' = 0 /\ separLen' = 1 /\ argCnt' = argCnt + 1
  /\ pc' = IF argCnt' > 3 THEN "exec" ELSE "parse"
  /\ UNCHANGED <<stream, results, rBuf, readDatalen, corruptMessagelen, messageBeginpos>>

\* The '!' that ends a message, and the newline behind it if there is one.
ParseEnd ==
  /\ Parsing
  /\ AtByte({BANG})
  /\ ArgumentFits
  /\ \E junk \in Junk : argv' = CopyArgument(FALSE, junk)
  /\ \E junk \in Junk :
       LET newlineLen == IF ByteAt(cursor + 1, junk) = NEWLINE THEN 1 ELSE 0
       IN  /\ cursor' = cursor + 1 + newlineLen
           /\ parsedLen' = parsedLen + Advance + 1 + newlineLen
  /\ argBeginpos' = argBeginpos + Advance
  /\ argCnt' = argCnt + 1
  /\ pc' = "exec"
  /\ UNCHANGED <<stream, results, rBuf, readDatalen, corruptMessagelen, messageBeginpos, argLen, preArgLen,
                 separLen>>

\* A byte of an argument.
ParseByte ==
  /\ Parsing
  /\ AtByte(Byte \ {TAB, BANG})
  /\ cursor' = cursor + 1
  /\ argLen' = argLen + 1
  /\ UNCHANGED <<stream, results, pc, rBuf, lengths, argv, argBeginpos, messageBeginpos, preArgLen, separLen, argCnt>>

\* parsedLen has reached readDatalen: the loop is left.
ParseStop ==
  /\ pc = "parse"
  /\ parsedLen = readDatalen
  /\ pc' = "exec"
  /\ UNCHANGED <<stream, results, rBuf, lengths, argv, parser>>

\* The loop runs out of the bytes behind rBuf that are followed, or an argument off the
\* end of argv: what the program does from here is undefined, and not followed.
ParseUndefined ==
  /\ Parsing
  /\ ~Followed \/ (AtByte({TAB, BANG}) /\ ~ArgumentFits)
  /\ pc' = "undefined"
  /\ UNCHANGED <<stream, results, rBuf, lengths, argv, parser>>

------------------------------------------------------------------------------
(* The command loop of tcpRead *)

\* strlen(argv[r]): the bytes up to the first NUL, across the rows if need be.
ArgLength(r) ==
  Cardinality({i \in (r * ARGUMENTCNT)..(ARGROWS * ARGUMENTCNT - 1) :
                 \A j \in (r * ARGUMENTCNT)..i : argv[j] # NUL})

ArgString(r) == [i \in 1..ArgLength(r) |-> argv[r * ARGUMENTCNT + i - 1]]

ExecSet ==
  /\ pc = "exec"
  /\ ArgString(0) = SetWord
  /\ executed' = Append(executed, SetWord \o <<TAB>> \o ArgString(1) \o <<TAB>> \o ArgString(2))
  /\ replies' = replies + 1
  /\ pc' = "decod"
  /\ UNCHANGED <<stream, rBuf, lengths, argv, parser>>

\* A set of this key is among these commands.
Stored(commands, key) ==
  \E i \in 1..Len(commands) :
    LET prefix == SetWord \o <<TAB>> \o key \o <<TAB>>
    IN  Len(commands[i]) >= Len(prefix) /\ SubSeq(commands[i], 1, Len(prefix)) = prefix

\* The key is in the database: a set on this connection, or elsewhere, has stored it.
ExecGet ==
  /\ pc = "exec"
  /\ ArgString(0) = GetWord
  /\ executed' = Append(executed, GetWord \o <<TAB>> \o ArgString(1))
  /\ replies' = replies + 1
  /\ pc' = "decod"
  /\ UNCHANGED <<stream, rBuf, lengths, argv, parser>>

\* The key is not in the database: the assertion of rocksGet ends the process.
ExecGetAbsent ==
  /\ pc = "exec"
  /\ ArgString(0) = GetWord
  /\ ~Stored(executed, ArgString(1))
  /\ executed' = Append(executed, GetWord \o <<TAB>> \o ArgString(1))
  /\ pc' = "exited"
  /\ UNCHANGED <<stream, replies, rBuf, lengths, argv, parser>>

\* The process exits; there is no reply.
ExecShutdown ==
  /\ pc = "exec"
  /\ ArgString(0) = ShutdownWord
  /\ executed' = Append(executed, ShutdownWord)
  /\ pc' = "exited"
  /\ UNCHANGED <<stream, replies, rBuf, lengths, argv, parser>>

\* Any other command is passed over.
ExecOther ==
  /\ pc = "exec"
  /\ ArgString(0) \notin {SetWord, GetWord, ShutdownWord}
  /\ pc' = "decod"
  /\ UNCHANGED <<stream, results, rBuf, lengths, argv, parser>>

------------------------------------------------------------------------------
Deliver == (\E n \in 1..Len(wire) : Arrive(n)) /\ UNCHANGED worker
Client == ((\E request \in Requests : Send(request)) \/ Hangup) /\ UNCHANGED worker

Read == Readable \/ ReadData \/ ReadEnd \/ ReadAgain \/ ReadError
Catch == NoMessage \/ repairLastCorruptMessage \/ CatchMessage
Parse == ParseSeparator \/ ParseArgument \/ ParseEnd \/ ParseByte \/ ParseStop \/ ParseUndefined
Exec == ExecSet \/ ExecGet \/ ExecGetAbsent \/ ExecShutdown \/ ExecOther

Server == Read \/ Catch \/ Parse \/ Exec

Next == Client \/ Deliver \/ Server

\* The worker thread keeps running, and bytes that were sent keep arriving.
Spec == /\ Init /\ [][Next]_vars
        /\ WF_vars(Server)
        /\ WF_vars(Deliver)

------------------------------------------------------------------------------
(* Properties *)

\* The types of the variables and the ranges of the lengths of struct buffer.
TypeOK ==
  /\ sent \in Seq(Seq(Byte)) /\ wire \in Seq(Byte) /\ queue \in Seq(Byte)
  /\ peer \in {"open", "closed", "reset"}
  /\ executed \in Seq(Seq(Byte)) /\ replies \in Nat
  /\ pc \in {"poll", "read", "decod", "parse", "exec", "closed", "exited", "undefined"}
  /\ rBuf \in [BufIndex -> Byte]
  /\ readDatalen \in -1..INIT_BUFFER_SIZE
  /\ parsedLen \in Nat
  /\ corruptMessagelen \in 0..INIT_BUFFER_SIZE
  /\ argv \in [ArgvIndex -> Byte]
  /\ cursor \in Nat /\ argBeginpos \in Nat /\ messageBeginpos \in Nat
  /\ argLen \in Nat /\ preArgLen \in Nat /\ separLen \in {0, 1} /\ argCnt \in 0..4

\* rBuf begins with a message that announces more bytes than rBuf has.
TooLong ==
  /\ parsedLen = 0 /\ rBuf[0] = STAR
  /\ HeaderInBuffer => (LengthIsNumber /\ messageLen > INIT_BUFFER_SIZE)

\* Whatever was carried over from the last read, the next one asks for a
\* number of bytes that is not negative and that fits behind them in rBuf
\* (tcpsocket.c:47-50), and asks for none only if a message that rBuf cannot
\* hold has filled it.
ReadWindow ==
  pc = "read" => /\ ReadCount >= 0
                 /\ corruptMessagelen + ReadCount <= INIT_BUFFER_SIZE
                 /\ ReadCount = 0 => TooLong

\* Between two reads the bytes carried over are the beginning of a message:
\* repairLastCorruptMessage has put its '*' first and no read or memset of
\* tcpRead has touched it since.
CarryIsMessage ==
  pc \in {"poll", "read"} /\ corruptMessagelen > 0 => rBuf[0] = STAR

\* A '!' is in rBuf behind the header of the message that is parsed.
EndInBuffer == \E i \in BufIndex : i >= messageBeginpos + 6 /\ rBuf[i] = BANG

\* The four lengths and two positions parseOneMessage keeps agree, so the
\* argument the next memcpy would take ends at the cursor.  If a '!' of rBuf
\* is behind the header, the cursor does not pass it, so all that is read and
\* copied is in rBuf, wherever in rBuf the message is.  The loop has no other
\* bound (codec.c:61): without a '!' it leaves rBuf, see ParseInBuffer.
ArgumentInBuffer ==
  pc = "parse" =>
    /\ argBeginpos = parsedLen
    /\ argBeginpos + Advance + argLen = cursor
    /\ messageBeginpos + 6 <= argBeginpos
    /\ EndInBuffer => cursor < INIT_BUFFER_SIZE

\* The byte the loop of parseOneMessage looks at is a byte of rBuf, when the
\* length of every message is accurate, as it is here: codec.c:20-21 warns
\* of the others.
ParseInBuffer == Parsing => cursor < INIT_BUFFER_SIZE

\* The server drops a connection before its peer does (tcpReadCallback, when
\* read returns 0) only if a message on it is longer than rBuf: otherwise a
\* full buffer is never mistaken for the end of the stream, and a message
\* that just fills rBuf is not dropped.
DroppedOnlyIfTooLong == pc = "closed" => peer = "closed" \/ TooLong

\* What is executed is what was sent: command by command, in order, with the
\* arguments it was sent with.
ExecutedIsSent ==
  /\ Len(executed) <= Len(sent)
  /\ \A i \in 1..Len(executed) : executed[i] = sent[i]

\* A command that was sent is executed, unless the client goes away first, an
\* earlier command ended the server, or a message was longer than rBuf.
RequestsExecuted ==
  \A n \in 1..MaxSent :
    Len(sent) >= n ~>
      \/ Len(executed) >= n
      \/ peer # "open"
      \/ pc = "exited"
      \/ \E i \in 1..Len(sent) : i <= n /\ Len(makeCommand(sent[i])) > INIT_BUFFER_SIZE

\* Every word of a command leaves a NUL at the end of its row of argv.
WordsFit(command) ==
  \A i \in 1..(Len(command) - ARGUMENTCNT + 1) :
    \E j \in i..(i + ARGUMENTCNT - 1) : command[j] = TAB

\* The server ends in a shutdown, and in a get of a key that no set of this
\* connection has stored, if no other has.
EndsServer(command, before) ==
  \/ command = ShutdownWord
  \/ /\ SubSeq(command, 1, 2) = GetWord \o <<TAB>>
     /\ ~Stored(before, SubSeq(command, 3, Len(command)))

\* A connection is a session: requests are executed one by one in the order they
\* were sent, each once, with its own arguments if its words are shorter than a row
\* of argv; each set is answered, and each get of a key that was set before on this
\* connection; a get of another key is answered or, when nobody has set it
\* (ds.cc:44), the last thing that is executed.
Session ==
  INSTANCE Session WITH
    Commands <- {request.command : request \in Requests},
    Faithful <- WordsFit, MayEnd <- EndsServer
ImplementsSession == Session!Spec
==============================================================================
