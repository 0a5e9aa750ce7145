----------------------------- MODULE CodecProofs -----------------------------
(***************************************************************************)
(* For every buffer size, argv layout, set of requests and bound, and for  *)
(* every way a stream can be cut into reads: the types of Codec, that no   *)
(* read leaves rBuf, that the parser does not either if it meets a '!',    *)
(* and why tcpRead closes a connection that the peer has not closed.       *)
(***************************************************************************)
EXTENDS Codec, FiniteSetTheorems, TLAPS

\* A new argument goes to one of the first four rows.
RowIsFree == pc = "parse" => argCnt <= 3

\* The positions of the parser agree, and no '!' of the message is behind the cursor.
Positions ==
  pc = "parse" =>
    /\ argBeginpos = parsedLen
    /\ argBeginpos + Advance + argLen = cursor
    /\ messageBeginpos + 6 <= argBeginpos
    /\ \A k \in BufIndex : messageBeginpos + 6 <= k /\ k < cursor => rBuf[k] # BANG

\* The inductive invariant.  The types bound corruptMessagelen and readDatalen
\* by the buffer; the positions of the parser say what it has passed.
IInv == TypeOK /\ CarryIsMessage /\ Positions /\ RowIsFree

------------------------------------------------------------------------------
\* An interval is cut off at the front by a set that is no larger.
LEMMA ArgLengthBound ==
  ASSUME TypeOK, NEW r \in 0..2, r * ARGUMENTCNT \in Nat, ARGROWS * ARGUMENTCNT \in Nat
  PROVE  /\ ArgLength(r) \in Nat
         /\ ArgLength(r) = 0 \/ r * ARGUMENTCNT + ArgLength(r) <= ARGROWS * ARGUMENTCNT
<1> DEFINE lo == r * ARGUMENTCNT
           hi == ARGROWS * ARGUMENTCNT - 1
           S == {i \in lo..hi : \A j \in lo..i : argv[j] # NUL}
<1>1. lo \in Int /\ hi \in Int
  OBVIOUS
<1>2. /\ IsFiniteSet(lo..hi)
      /\ Cardinality(lo..hi) = IF lo > hi THEN 0 ELSE hi - lo + 1
  BY <1>1, FS_Interval, Zenon
<1>3. /\ IsFiniteSet(S)
      /\ Cardinality(S) <= Cardinality(lo..hi)
  BY <1>2, FS_Subset, Zenon
<1>4. Cardinality(S) \in Nat
  BY <1>3, FS_CardinalityType, Zenon
<1>5. ArgLength(r) = Cardinality(S)
  BY Zenon DEF ArgLength
<1> QED
  BY <1>1, <1>2, <1>3, <1>4, <1>5

\* Every row begins inside argv or behind it.
LEMMA RowPosition ==
  ASSUME NEW r \in Nat
  PROVE  r * ARGUMENTCNT \in Nat /\ ARGROWS * ARGUMENTCNT \in Nat
BY CodecAssumption

\* The string in a row of argv is a sequence of bytes.
LEMMA ArgStringType ==
  ASSUME TypeOK, NEW r \in 0..2
  PROVE  ArgString(r) \in Seq(Byte)
<1>1. r * ARGUMENTCNT \in Nat /\ ARGROWS * ARGUMENTCNT \in Nat
  BY RowPosition
<1>2. /\ ArgLength(r) \in Nat
      /\ ArgLength(r) = 0 \/ r * ARGUMENTCNT + ArgLength(r) <= ARGROWS * ARGUMENTCNT
  BY <1>1, ArgLengthBound, Zenon
<1>3. ASSUME NEW i \in 1..ArgLength(r)
      PROVE  argv[r * ARGUMENTCNT + i - 1] \in Byte
  <2>1. r * ARGUMENTCNT + i - 1 \in 0..(ARGROWS * ARGUMENTCNT - 1)
    BY <1>1, <1>2
  <2> QED
    BY <2>1, Zenon DEF TypeOK, ArgvIndex
<1> QED
  BY <1>2, <1>3 DEF ArgString

\* What a client sends is a sequence of bytes.
LEMMA CommandType ==
  ASSUME NEW c \in Seq(Byte)
  PROVE  makeCommand(c) \in Seq(Byte)
<1> DEFINE n == 7 + Len(c) + 2
<1>1. /\ ((n \div 1000) % 10) + ZERO \in Byte
      /\ ((n \div 100) % 10) + ZERO \in Byte
      /\ ((n \div 10) % 10) + ZERO \in Byte
      /\ (n % 10) + ZERO \in Byte
  <2>1. n \in Nat /\ n \div 1000 \in Nat /\ n \div 100 \in Nat /\ n \div 10 \in Nat
    OBVIOUS
  <2>2. ASSUME NEW m \in Nat
        PROVE  (m % 10) + ZERO \in Byte
    BY DEF ZERO, Byte
  <2> QED
    BY <2>1, <2>2
<1>2. STAR \in Byte /\ TAB \in Byte /\ BANG \in Byte
  BY DEF STAR, TAB, BANG, Byte
<1> DEFINE head == <<STAR, TAB, ((n \div 1000) % 10) + ZERO, ((n \div 100) % 10) + ZERO,
                     ((n \div 10) % 10) + ZERO, (n % 10) + ZERO, TAB>>
<1>3. head \in Seq(Byte) /\ <<TAB, BANG>> \in Seq(Byte)
  BY <1>1, <1>2
<1>4. makeCommand(c) = head \o c \o <<TAB, BANG>>
  BY Zenon DEF makeCommand
<1> QED
  BY <1>3, <1>4

------------------------------------------------------------------------------
\* memset fills with a byte.
LEMMA NulIsByte == NUL \in Byte
BY DEF NUL, Byte

\* initBuf leaves an empty buffer.
LEMMA InitIInv == Init => IInv
<1> SUFFICES ASSUME Init PROVE IInv
  OBVIOUS
<1>1. TypeOK
  BY NulIsByte, CodecAssumption DEF Init, TypeOK
<1> QED
  BY <1>1 DEF Init, IInv, CarryIsMessage, Positions, RowIsFree

\* The client and the network change neither the buffer nor the parser.
LEMMA ClientIInv == ASSUME IInv, Client \/ Deliver PROVE IInv'
<1>1. UNCHANGED worker
  BY Zenon DEF Client, Deliver
<1> DEFINE StreamOK == /\ sent \in Seq(Seq(Byte)) /\ wire \in Seq(Byte) /\ queue \in Seq(Byte)
                       /\ peer \in {"open", "closed", "reset"}
<1>2. StreamOK
  BY Zenon DEF IInv, TypeOK
<1>3. StreamOK'
  <2>1. ASSUME NEW request \in Requests, Send(request)
        PROVE  StreamOK'
    <3>1. request.command \in Seq(Byte) /\ request.tail \in Seq(Byte)
      BY CodecAssumption
    <3>2. makeCommand(request.command) \in Seq(Byte)
      BY <3>1, CommandType, Zenon
    <3> QED
      BY <1>2, <2>1, <3>1, <3>2 DEF Send
  <2>2. ASSUME NEW n \in 1..Len(wire), Arrive(n)
        PROVE  StreamOK'
    <3>1. SubSeq(wire, 1, n) \in Seq(Byte) /\ SubSeq(wire, n + 1, Len(wire)) \in Seq(Byte)
      BY <1>2
    <3> QED
      BY <1>2, <2>2, <3>1 DEF Arrive
  <2>3. ASSUME Hangup
        PROVE  StreamOK'
    <3>1. <<>> \in Seq(Byte)
      OBVIOUS
    <3> QED
      BY <1>2, <2>3, <3>1, Zenon DEF Hangup
  <2> QED
    BY <2>1, <2>2, <2>3, Zenon DEF Client, Deliver
<1> QED
  BY <1>1, <1>3, Zenon
  DEF IInv, TypeOK, CarryIsMessage, Positions, RowIsFree, Advance, worker, results, lengths, parser

\* tcpRead up to the result of read: the bytes carried over stay in front, and
\* what read returns fits behind them.
LEMMA ReadIInv == ASSUME IInv, Read PROVE IInv'
<1> DEFINE N == INIT_BUFFER_SIZE
<1>1. /\ N \in Nat \ {0}
      /\ rBuf \in [BufIndex -> Byte]
      /\ corruptMessagelen \in 0..N
      /\ queue \in Seq(Byte)
  BY CodecAssumption, Zenon DEF IInv, TypeOK
<1>2. Cleared \in [BufIndex -> Byte]
  BY <1>1, NulIsByte, Zenon DEF Cleared
<1>3. corruptMessagelen > 0 => Cleared[0] = rBuf[0]
  BY <1>1 DEF Cleared, BufIndex
<1>4. CASE Readable
  BY <1>4, Zenon
  DEF Readable, IInv, TypeOK, CarryIsMessage, Positions, RowIsFree, stream, results, lengths, parser
<1>5. CASE ReadData
  <2>1. ReadCount \in 0..N
    BY <1>1, CodecAssumption DEF ReadCount
  <2> DEFINE nread == IF Len(queue) < ReadCount THEN Len(queue) ELSE ReadCount
  <2>2. /\ rBuf' = Filled(nread)
        /\ queue' = SubSeq(queue, nread + 1, Len(queue))
        /\ readDatalen' = nread
    BY <1>5, Zenon DEF ReadData
  <2>3. nread \in 0..N /\ nread <= Len(queue) /\ Len(queue) \in Nat
    BY <1>1, <2>1
  <2> HIDE DEF nread
  <2>4. Filled(nread) \in [BufIndex -> Byte]
    <3>1. ASSUME NEW i \in BufIndex, i \in corruptMessagelen..(corruptMessagelen + nread - 1)
          PROVE  queue[i - corruptMessagelen + 1] \in Byte
      <4>1. i - corruptMessagelen + 1 \in 1..Len(queue)
        BY <1>1, <2>3, <3>1
      <4> QED
        BY <1>1, <4>1
    <3> QED
      BY <1>2, <3>1, Zenon DEF Filled
  <2>5. SubSeq(queue, nread + 1, Len(queue)) \in Seq(Byte)
    BY <1>1, <2>3
  <2>6. TypeOK'
    <3>1. nread \in -1..N /\ 0 \in Nat
      BY <1>1, <2>3
    <3>2. parsedLen' \in Nat /\ readDatalen' \in -1..INIT_BUFFER_SIZE
      BY <1>5, <2>2, <3>1, Zenon DEF ReadData
    <3>3. rBuf' \in [BufIndex -> Byte] /\ queue' \in Seq(Byte)
      BY <2>2, <2>4, <2>5, Zenon
    <3> QED
      BY <1>5, <3>2, <3>3, Zenon DEF ReadData, IInv, TypeOK, results, parser
  <2> QED
    BY <1>5, <2>6, Zenon DEF ReadData, IInv, CarryIsMessage, Positions, RowIsFree
<1>6. CASE ReadEnd
  BY <1>1, <1>2, <1>6
  DEF ReadEnd, IInv, TypeOK, CarryIsMessage, Positions, RowIsFree, stream, results, parser
<1>7. CASE ReadAgain
  <2>1. TypeOK'
    BY <1>1, <1>2, <1>7 DEF ReadAgain, IInv, TypeOK, stream, results, parser
  <2> QED
    BY <1>3, <1>7, <2>1, Zenon DEF ReadAgain, IInv, CarryIsMessage, Positions, RowIsFree
<1>8. CASE ReadError
  BY <1>1, <1>2, <1>8
  DEF ReadError, IInv, TypeOK, CarryIsMessage, Positions, RowIsFree, results, parser
<1> QED
  BY <1>4, <1>5, <1>6, <1>7, <1>8, Zenon DEF Read

\* catchOneMessagefromBuffer: what is carried over begins at the '*' that was
\* found, and parsing begins behind a header that is in the buffer.
LEMMA CatchIInv == ASSUME IInv, Catch PROVE IInv'
<1> DEFINE N == INIT_BUFFER_SIZE
<1>1. /\ N \in Nat \ {0}
      /\ rBuf \in [BufIndex -> Byte]
      /\ readDatalen \in -1..N
      /\ parsedLen \in Nat
  BY CodecAssumption, Zenon DEF IInv, TypeOK
<1>2. CASE NoMessage
  BY <1>1, <1>2
  DEF NoMessage, IInv, TypeOK, CarryIsMessage, Positions, RowIsFree, stream, results, parser
<1>3. CASE repairLastCorruptMessage
  <2> DEFINE len == parseRemainlen + 2
  <2>1. parsedLen < readDatalen /\ rBuf[parsedLen] = STAR
    BY <1>3, Zenon DEF repairLastCorruptMessage, AtMessage
  <2>2. len \in 1..N /\ N - len = parsedLen
    BY <1>1, <2>1 DEF parseRemainlen
  <2>3. rBuf' = Moved(len) /\ corruptMessagelen' = len /\ pc' = "read"
    BY <1>3, Zenon DEF repairLastCorruptMessage
  <2> HIDE DEF len
  <2>4. Moved(len) \in [BufIndex -> Byte]
    <3>1. ASSUME NEW i \in BufIndex, i < len
          PROVE  rBuf[N - len + i] \in Byte
      BY <1>1, <2>2, <3>1 DEF BufIndex
    <3> QED
      BY <1>1, <3>1, NulIsByte, Zenon DEF Moved
  <2>5. Moved(len)[0] = STAR
    BY <1>1, <2>1, <2>2 DEF Moved, BufIndex
  <2>6. TypeOK'
    BY <1>1, <1>3, <2>2, <2>3, <2>4 DEF repairLastCorruptMessage, IInv, TypeOK, stream, results, parser
  <2> QED
    BY <2>3, <2>5, <2>6, Zenon DEF IInv, CarryIsMessage, Positions, RowIsFree
<1>4. CASE CatchMessage
  <2>2. TypeOK'
    BY <1>1, <1>4 DEF CatchMessage, IInv, TypeOK, stream, results
  <2>3. Positions' /\ RowIsFree'
    BY <1>1, <1>4 DEF CatchMessage, Positions, RowIsFree, Advance, BufIndex
  <2> QED
    BY <1>4, <2>2, <2>3, Zenon DEF CatchMessage, IInv, CarryIsMessage
<1> QED
  BY <1>2, <1>3, <1>4, Zenon DEF Catch

\* A byte of rBuf, of the padding behind it or of what follows is a byte.
LEMMA ByteAtType ==
  ASSUME TypeOK, NEW i \in Nat, NEW junk \in Junk
  PROVE  ByteAt(i, junk) \in Byte
<1>1. i < INIT_BUFFER_SIZE => i \in BufIndex
  BY CodecAssumption DEF BufIndex
<1>2. junk \in Byte
  BY CodecAssumption, Zenon
<1> QED
  BY <1>1, <1>2, NulIsByte, Zenon DEF ByteAt, TypeOK

\* A byte that lies in rBuf is known.
LEMMA AtByteInBuffer ==
  ASSUME NEW bytes, AtByte(bytes), cursor < INIT_BUFFER_SIZE
  PROVE  rBuf[cursor] \in bytes
BY Zenon DEF AtByte, ByteAt

\* The copy of an argument keeps argv's shape, wherever its bytes come from.
LEMMA CopyArgumentType ==
  ASSUME IInv, pc = "parse", NEW clear \in BOOLEAN, NEW junk \in Junk
  PROVE  CopyArgument(clear, junk) \in [ArgvIndex -> Byte]
<1> DEFINE row == argCnt * ARGUMENTCNT
           from == argBeginpos + Advance
<1>1. /\ TypeOK
      /\ argLen \in Nat /\ argCnt \in Nat
      /\ argBeginpos \in Nat /\ preArgLen \in Nat /\ separLen \in Nat
      /\ argv \in [ArgvIndex -> Byte]
  BY DEF IInv, TypeOK
<1>2. from \in Nat
  BY <1>1 DEF Advance
<1>3. row \in Nat
  BY <1>1, RowPosition, Zenon
<1>4. CopyArgument(clear, junk) =
        [i \in ArgvIndex |->
           IF i \in row..(row + argLen - 1) THEN ByteAt(from + i - row, junk)
           ELSE IF clear /\ i \in row..(row + ARGUMENTCNT - 1) THEN NUL
           ELSE argv[i]]
  BY Zenon DEF CopyArgument
<1> HIDE DEF row, from
<1>5. ASSUME NEW i \in row..(row + argLen - 1)
      PROVE  ByteAt(from + i - row, junk) \in Byte
  <2>1. from + i - row \in Nat
    BY <1>1, <1>2, <1>3
  <2> QED
    BY <1>1, <2>1, ByteAtType, Zenon
<1> QED
  BY <1>1, <1>4, <1>5, NulIsByte, Zenon

\* A tab does not end a message.
LEMMA TabIsNoEnd == BANG \notin {TAB}
BY DEF BANG, TAB

\* The cursor goes over a byte that is not a '!'.
LEMMA PassByte ==
  ASSUME IInv, pc = "parse", cursor' = cursor + 1, UNCHANGED <<rBuf, messageBeginpos>>,
         NEW bytes, BANG \notin bytes, AtByte(bytes)
  PROVE  \A k \in BufIndex : messageBeginpos' + 6 <= k /\ k < cursor' => rBuf'[k] # BANG
<1> SUFFICES ASSUME NEW k \in BufIndex, messageBeginpos + 6 <= k, k < cursor + 1
             PROVE  rBuf[k] # BANG
  BY Zenon
<1>1. cursor \in Nat /\ k \in Nat /\ k < INIT_BUFFER_SIZE
  BY CodecAssumption DEF IInv, TypeOK, BufIndex
<1>2. CASE k < cursor
  BY <1>2, Zenon DEF IInv, Positions
<1>3. CASE k = cursor
  BY <1>1, <1>3, AtByteInBuffer, Zenon
<1> QED
  BY <1>1, <1>2, <1>3

\* parseOneMessage: every step moves the cursor and the lengths together.
LEMMA ParseIInv == ASSUME IInv, Parse PROVE IInv'
<1>1. /\ INIT_BUFFER_SIZE \in Nat
      /\ parsedLen \in Nat /\ cursor \in Nat /\ argBeginpos \in Nat /\ messageBeginpos \in Nat
      /\ argLen \in Nat /\ preArgLen \in Nat /\ separLen \in {0, 1} /\ argCnt \in 0..4
  BY CodecAssumption, Zenon DEF IInv, TypeOK
<1>2. Advance \in Nat
  BY <1>1 DEF Advance
<1>3. pc = "parse"
  BY Zenon DEF Parse, ParseSeparator, ParseArgument, ParseEnd, ParseByte, ParseStop, ParseUndefined, Parsing
<1>4. /\ argBeginpos = parsedLen
      /\ argBeginpos + Advance + argLen = cursor
      /\ messageBeginpos + 6 <= argBeginpos
      /\ argCnt <= 3
  BY <1>3, Zenon DEF IInv, Positions, RowIsFree
<1>5. CASE ParseSeparator
  <2>1. TypeOK'
    BY <1>1, <1>5 DEF ParseSeparator, IInv, TypeOK, stream, results, lengths
  <2>2. \A k \in BufIndex : messageBeginpos' + 6 <= k /\ k < cursor' => rBuf'[k] # BANG
    BY <1>3, <1>5, TabIsNoEnd, PassByte, Zenon DEF ParseSeparator
  <2>3. Positions' /\ RowIsFree'
    BY <1>1, <1>4, <1>5, <2>2 DEF ParseSeparator, Positions, RowIsFree, Advance, lengths
  <2> QED
    BY <1>3, <1>5, <2>1, <2>3, Zenon DEF ParseSeparator, IInv, CarryIsMessage
<1>6. CASE ParseArgument
  <2>1. argv' \in [ArgvIndex -> Byte]
    BY <1>3, <1>6, CopyArgumentType, Zenon DEF ParseArgument
  <2>2. TypeOK'
    <3>1. /\ parsedLen' \in Nat /\ cursor' \in Nat /\ argBeginpos' \in Nat /\ argLen' \in Nat
          /\ preArgLen' \in Nat /\ separLen' \in {0, 1} /\ argCnt' \in 0..4
          /\ pc' \in {"exec", "parse"}
      BY <1>1, <1>2, <1>4, <1>6 DEF ParseArgument
    <3> QED
      BY <1>6, <2>1, <3>1, Zenon DEF ParseArgument, IInv, TypeOK, stream, results
  <2>3. \A k \in BufIndex : messageBeginpos' + 6 <= k /\ k < cursor' => rBuf'[k] # BANG
    BY <1>3, <1>6, TabIsNoEnd, PassByte, Zenon DEF ParseArgument
  <2>4. Positions' /\ RowIsFree'
    BY <1>1, <1>2, <1>4, <1>6, <2>3 DEF ParseArgument, Positions, RowIsFree, Advance
  <2> QED
    BY <1>6, <2>2, <2>4, Zenon DEF ParseArgument, IInv, CarryIsMessage
<1>7. CASE ParseEnd
  <2>1. argv' \in [ArgvIndex -> Byte]
    BY <1>3, <1>7, CopyArgumentType, Zenon DEF ParseEnd
  <2>2. PICK newlineLen \in {0, 1} : /\ cursor' = cursor + 1 + newlineLen
                                     /\ parsedLen' = parsedLen + Advance + 1 + newlineLen
    BY <1>7, Zenon DEF ParseEnd
  <2>3. TypeOK'
    <3>1. parsedLen' \in Nat /\ cursor' \in Nat /\ argBeginpos' \in Nat /\ argCnt' \in 0..4
      BY <1>1, <1>2, <1>4, <1>7, <2>2 DEF ParseEnd
    <3> QED
      BY <1>7, <2>1, <3>1, Zenon DEF ParseEnd, IInv, TypeOK, stream, results
  <2> QED
    BY <1>7, <2>3, Zenon DEF ParseEnd, IInv, CarryIsMessage, Positions, RowIsFree
<1>8. CASE ParseByte
  <2>1. TypeOK'
    BY <1>1, <1>8 DEF ParseByte, IInv, TypeOK, stream, results, lengths
  <2>2. \A k \in BufIndex : messageBeginpos' + 6 <= k /\ k < cursor' => rBuf'[k] # BANG
    <3>1. BANG \notin Byte \ {TAB, BANG}
      BY Zenon
    <3> QED
      BY <1>3, <1>8, <3>1, PassByte, Zenon DEF ParseByte
  <2>3. Positions' /\ RowIsFree'
    BY <1>1, <1>4, <1>8, <2>2 DEF ParseByte, Positions, RowIsFree, Advance, lengths
  <2> QED
    BY <1>3, <1>8, <2>1, <2>3, Zenon DEF ParseByte, IInv, CarryIsMessage
<1>9. CASE ParseStop
  BY <1>9, Zenon
  DEF ParseStop, IInv, TypeOK, CarryIsMessage, Positions, RowIsFree, stream, results, lengths, parser
<1>10. CASE ParseUndefined
  BY <1>10, Zenon
  DEF ParseUndefined, IInv, TypeOK, CarryIsMessage, Positions, RowIsFree, stream, results, lengths,
      parser
<1> QED
  BY <1>5, <1>6, <1>7, <1>8, <1>9, <1>10, Zenon DEF Parse

\* Executing a command leaves the buffer alone.
LEMMA ExecIInv == ASSUME IInv, Exec PROVE IInv'
<1>1. ArgString(1) \in Seq(Byte) /\ ArgString(2) \in Seq(Byte)
  BY ArgStringType DEF IInv
<1>2. /\ SetWord \in Seq(Byte) /\ GetWord \in Seq(Byte) /\ ShutdownWord \in Seq(Byte)
      /\ <<TAB>> \in Seq(Byte)
  BY DEF SetWord, GetWord, ShutdownWord, TAB, Byte
<1>3. /\ SetWord \o <<TAB>> \o ArgString(1) \o <<TAB>> \o ArgString(2) \in Seq(Byte)
      /\ GetWord \o <<TAB>> \o ArgString(1) \in Seq(Byte)
  BY <1>1, <1>2
<1>4. executed \in Seq(Seq(Byte)) /\ replies \in Nat
  BY Zenon DEF IInv, TypeOK
<1>5. /\ executed' \in Seq(Seq(Byte)) /\ replies' \in Nat
      /\ pc' \in {"decod", "exited"}
      /\ UNCHANGED <<stream, rBuf, lengths, argv, parser>>
  <2>1. CASE ExecSet
    BY <1>3, <1>4, <2>1 DEF ExecSet
  <2>2. CASE ExecGet
    BY <1>3, <1>4, <2>2 DEF ExecGet
  <2>3. CASE ExecGetAbsent
    BY <1>3, <1>4, <2>3 DEF ExecGetAbsent
  <2>4. CASE ExecShutdown
    BY <1>2, <1>4, <2>4 DEF ExecShutdown
  <2>5. CASE ExecOther
    BY <1>4, <2>5, Zenon DEF ExecOther, results
  <2> QED
    BY <2>1, <2>2, <2>3, <2>4, <2>5, Zenon DEF Exec
<1> QED
  BY <1>5, Zenon DEF IInv, TypeOK, CarryIsMessage, Positions, RowIsFree, stream, lengths, parser

\* Every step of Codec preserves the invariant.
LEMMA NextIInv == IInv /\ [Next]_vars => IInv'
<1> SUFFICES ASSUME IInv, [Next]_vars PROVE IInv'
  OBVIOUS
<1>1. CASE Client \/ Deliver
  BY <1>1, ClientIInv, Zenon
<1>2. CASE Server
  BY <1>2, ReadIInv, CatchIInv, ParseIInv, ExecIInv, Zenon DEF Server
<1>3. CASE UNCHANGED vars
  BY <1>3, Zenon
  DEF vars, worker, stream, results, lengths, parser, IInv, TypeOK, CarryIsMessage, Positions,
      RowIsFree, Advance
<1> QED
  BY <1>1, <1>2, <1>3, Zenon DEF Next

\* IInv holds of every reachable state.
THEOREM Invariance == Spec => []IInv
BY InitIInv, NextIInv, PTL DEF Spec

\* For any buffer size and any stream, the lengths of struct buffer keep their
\* bounds, and parseOneMessage never counts more than four arguments.
THEOREM TypeCorrect == Spec => []TypeOK
<1>1. IInv => TypeOK
  BY Zenon DEF IInv
<1> QED
  BY <1>1, Invariance, PTL

\* What repairLastCorruptMessage carries over begins with the '*' of a message
\* and keeps it until the next read, for any stream.
THEOREM CarryBeginsMessage == Spec => []CarryIsMessage
<1>1. IInv => CarryIsMessage
  BY Zenon DEF IInv
<1> QED
  BY <1>1, Invariance, PTL

\* For any stream the lengths parseOneMessage keeps agree with its cursor, and it
\* neither reads nor copies a byte outside rBuf if a '!' is in rBuf behind the
\* header of the message; without one its loop has no bound.
THEOREM ArgumentStaysInBuffer == Spec => []ArgumentInBuffer
<1>1. IInv => ArgumentInBuffer
  <2> SUFFICES ASSUME IInv, pc = "parse", EndInBuffer
               PROVE  cursor < INIT_BUFFER_SIZE
    BY Zenon DEF IInv, Positions, ArgumentInBuffer
  <2>1. PICK i \in BufIndex : i >= messageBeginpos + 6 /\ rBuf[i] = BANG
    BY Zenon DEF EndInBuffer
  <2>2. i \in Nat /\ i < INIT_BUFFER_SIZE /\ messageBeginpos \in Nat /\ cursor \in Nat
    BY CodecAssumption DEF BufIndex, IInv, TypeOK
  <2>3. ~ (i < cursor)
    <3>1. messageBeginpos + 6 <= i
      BY <2>1, <2>2
    <3> QED
      BY <2>1, <3>1, Zenon DEF IInv, Positions
  <2> QED
    BY <2>2, <2>3, CodecAssumption
<1> QED
  BY <1>1, Invariance, PTL

------------------------------------------------------------------------------
(* Connections that the server drops itself *)

\* rBuf is carried over whole, and read asked for nothing, only because of such a message.
FullIsTooLong ==
  /\ pc \in {"poll", "read"} => parsedLen = 0
  /\ pc \in {"poll", "read"} /\ corruptMessagelen = INIT_BUFFER_SIZE => TooLong
  /\ pc = "closed" => peer = "closed" \/ TooLong

\* What TooLong says of rBuf is about its bytes, which stay.
LEMMA TooLongStays ==
  ASSUME TooLong, \A i \in BufIndex : rBuf'[i] = rBuf[i], parsedLen' = 0 PROVE TooLong'
<1>1. 0 \in BufIndex /\ INIT_BUFFER_SIZE \in Nat
  BY CodecAssumption DEF BufIndex
<1>2. parseRemainlen' = parseRemainlen /\ (HeaderInBuffer' <=> HeaderInBuffer)
  BY Zenon DEF TooLong, parseRemainlen, HeaderInBuffer
<1>3. ASSUME HeaderInBuffer, NEW i \in 0..3 PROVE HeaderAt(i)' = HeaderAt(i)
  <2>1. parsedLen = 0
    BY Zenon DEF TooLong
  <2>2. 2 + i \in BufIndex /\ parsedLen + 2 + i = 2 + i /\ parsedLen' + 2 + i = 2 + i
    BY <1>1, <1>3, <2>1 DEF HeaderInBuffer, parseRemainlen, BufIndex
  <2> QED
    BY <2>2, Zenon DEF HeaderAt
<1>4. HeaderInBuffer => (LengthIsNumber' <=> LengthIsNumber) /\ messageLen' = messageLen
  BY <1>3 DEF LengthIsNumber, messageLen
<1> QED
  BY <1>1, <1>2, <1>4, Zenon DEF TooLong

\* The steps of read: it returns 0 at the end of the stream or when rBuf is full.
LEMMA ReadTooLong == ASSUME IInv, FullIsTooLong, Read PROVE FullIsTooLong'
<1>1. CASE Readable
  BY <1>1 DEF Readable, FullIsTooLong, TooLong, HeaderInBuffer, LengthIsNumber,
              parseRemainlen, HeaderAt, messageLen, stream, lengths
<1>2. CASE ReadData \/ ReadError
  BY <1>2, Zenon DEF ReadData, ReadError, FullIsTooLong
<1>3. CASE ReadEnd
  <2>1. pc' = "closed" /\ parsedLen' = 0 /\ peer' = peer /\ pc = "read" /\ rBuf' = Cleared
    BY <1>3, Zenon DEF ReadEnd, stream
  <2>2. CASE peer = "closed"
    BY <2>1, <2>2, Zenon DEF FullIsTooLong
  <2>3. CASE peer # "closed"
    <3>1. corruptMessagelen = INIT_BUFFER_SIZE
      BY <1>3, <2>3, CodecAssumption DEF ReadEnd, ReadCount, IInv, TypeOK
    <3>2. \A i \in BufIndex : rBuf'[i] = rBuf[i]
      BY <2>1, <3>1, CodecAssumption DEF Cleared, BufIndex
    <3>3. TooLong'
      BY <2>1, <3>1, <3>2, TooLongStays, Zenon DEF FullIsTooLong
    <3> QED
      BY <2>1, <3>3, Zenon DEF FullIsTooLong
  <2> QED
    BY <2>2, <2>3, Zenon
<1>4. CASE ReadAgain
  <2>1. pc' = "poll" /\ parsedLen' = 0 /\ corruptMessagelen' = corruptMessagelen
    BY <1>4, Zenon DEF ReadAgain
  <2>2. corruptMessagelen # INIT_BUFFER_SIZE
    BY <1>4, CodecAssumption DEF ReadAgain, ReadCount
  <2> QED
    BY <2>1, <2>2, Zenon DEF FullIsTooLong
<1> QED
  BY <1>1, <1>2, <1>3, <1>4, Zenon DEF Read

\* Four digits make a number.
LEMMA DecimalType ==
  ASSUME NEW a \in Int, NEW b \in Int, NEW c \in Int, NEW d \in Int
  PROVE  (a - ZERO) * 1000 + (b - ZERO) * 100 + (c - ZERO) * 10 + (d - ZERO) \in Int
BY DEF ZERO

\* catchOneMessagefromBuffer carries rBuf over whole only if the message does not fit.
LEMMA CatchTooLong == ASSUME IInv, FullIsTooLong, Catch PROVE FullIsTooLong'
<1> USE CodecAssumption
<1>1. CASE NoMessage
  BY <1>1, Zenon DEF NoMessage, FullIsTooLong
<1>2. CASE repairLastCorruptMessage
  <2>1. /\ pc' = "read" /\ parsedLen' = 0
        /\ corruptMessagelen' = INIT_BUFFER_SIZE - parsedLen
        /\ rBuf' = Moved(INIT_BUFFER_SIZE - parsedLen)
    BY <1>2 DEF repairLastCorruptMessage, parseRemainlen, IInv, TypeOK
  <2>2. ASSUME parsedLen = 0 PROVE TooLong'
    <3>1. TooLong
      <4>1. HeaderInBuffer => LengthIsNumber /\ ~MessageInBuffer
        BY <1>2, Zenon DEF repairLastCorruptMessage
      <4>2. ASSUME HeaderInBuffer PROVE messageLen \in Int
        <5>1. ASSUME NEW i \in 0..3 PROVE HeaderAt(i) \in Int
          BY <2>2, <4>1, <4>2 DEF LengthIsNumber, ZERO, NINE
        <5>2. HeaderAt(0) \in Int /\ HeaderAt(1) \in Int /\ HeaderAt(2) \in Int /\ HeaderAt(3) \in Int
          BY <5>1
        <5>3. (HeaderAt(0) - ZERO) * 1000 + (HeaderAt(1) - ZERO) * 100
                + (HeaderAt(2) - ZERO) * 10 + (HeaderAt(3) - ZERO) \in Int
          BY <5>2, DecimalType
        <5> QED
          BY <5>3, SMT DEF messageLen
      <4>3. HeaderInBuffer => messageLen > INIT_BUFFER_SIZE
        BY <2>2, <4>1, <4>2 DEF MessageInBuffer, parseRemainlen
      <4> QED
        BY <1>2, <2>2, <4>1, <4>3, Zenon DEF repairLastCorruptMessage, TooLong, AtMessage
    <3>2. \A i \in BufIndex : rBuf'[i] = rBuf[i]
      BY <2>1, <2>2 DEF Moved, BufIndex
    <3> QED
      BY <2>1, <3>1, <3>2, TooLongStays, Zenon
  <2>3. corruptMessagelen' = INIT_BUFFER_SIZE => parsedLen = 0
    BY <2>1 DEF IInv, TypeOK
  <2> QED
    BY <2>1, <2>2, <2>3, Zenon DEF FullIsTooLong
<1>3. CASE CatchMessage
  BY <1>3, Zenon DEF CatchMessage, FullIsTooLong
<1> QED
  BY <1>1, <1>2, <1>3, Zenon DEF Catch

\* FullIsTooLong holds of every reachable state.
THEOREM FullOnlyIfTooLong == Spec => []FullIsTooLong
<1>1. Init => FullIsTooLong
  BY CodecAssumption, Zenon DEF Init, FullIsTooLong
<1>2. IInv /\ FullIsTooLong /\ [Next]_vars => FullIsTooLong'
  <2> SUFFICES ASSUME IInv, FullIsTooLong, [Next]_vars PROVE FullIsTooLong'
    OBVIOUS
  <2>1. CASE Client \/ Deliver \/ UNCHANGED vars
    <3>1. UNCHANGED <<pc, rBuf, parsedLen, corruptMessagelen>>
      BY <2>1, Zenon DEF Client, Deliver, vars, worker, lengths
    <3>2. peer = "closed" => peer' = "closed"
      BY <2>1, Zenon DEF Client, Deliver, Send, Arrive, Hangup, vars, stream
    <3>3. TooLong' <=> TooLong
      BY <3>1 DEF TooLong, HeaderInBuffer, LengthIsNumber, parseRemainlen, HeaderAt,
                  messageLen
    <3> QED
      BY <3>1, <3>2, <3>3, Zenon DEF FullIsTooLong
  <2>2. CASE Parse \/ Exec
    <3>1. pc' \notin {"poll", "read", "closed"}
      BY <2>2, Zenon DEF Parse, ParseSeparator, ParseArgument, ParseEnd, ParseByte, ParseStop,
                  ParseUndefined, Parsing, Exec, ExecSet, ExecGet,
                  ExecGetAbsent, ExecShutdown, ExecOther
    <3> QED
      BY <3>1, Zenon DEF FullIsTooLong
  <2> QED
    BY <2>1, <2>2, ReadTooLong, CatchTooLong, Zenon DEF Next, Server
<1> QED
  BY Invariance, <1>1, <1>2, PTL DEF Spec

\* The server drops a connection that its peer has not closed only if a message on it
\* announces more than rBuf holds; a full rBuf is never mistaken for the end of the stream
\* otherwise, however the stream was cut.
THEOREM DropsOnlyTooLong == Spec => []DroppedOnlyIfTooLong
<1>1. FullIsTooLong => DroppedOnlyIfTooLong
  BY Zenon DEF FullIsTooLong, DroppedOnlyIfTooLong
<1> QED
  BY <1>1, FullOnlyIfTooLong, PTL

\* No read of tcpRead asks for a negative number of bytes or writes behind the end of rBuf,
\* and it asks for none only behind a message that rBuf cannot hold.
THEOREM ReadStaysInBuffer == Spec => []ReadWindow
<1>1. IInv /\ FullIsTooLong => ReadWindow
  <2> SUFFICES ASSUME IInv, FullIsTooLong, pc = "read"
               PROVE  /\ ReadCount >= 0
                      /\ corruptMessagelen + ReadCount <= INIT_BUFFER_SIZE
                      /\ ReadCount = 0 => TooLong
    BY Zenon DEF ReadWindow
  <2>1. /\ ReadCount >= 0
        /\ corruptMessagelen + ReadCount <= INIT_BUFFER_SIZE
        /\ ReadCount = 0 => corruptMessagelen = INIT_BUFFER_SIZE
    BY CodecAssumption DEF IInv, TypeOK, ReadCount
  <2> QED
    BY <2>1, Zenon DEF FullIsTooLong
<1> QED
  BY <1>1, Invariance, FullOnlyIfTooLong, PTL
==============================================================================
