------------------------------ MODULE NiceProofs ------------------------------
(***************************************************************************)
(* The demo co-unit after any number of operations, in any order, on a bus *)
(* that may refuse any command and answer as late as it likes.  What an    *)
(* operation leaves in the counters and the receive buffer is what the     *)
(* next one starts from, so the invariant says where every register stands *)
(* at every step of every operation.                                       *)
(***************************************************************************)
EXTENDS NiceCore, SequenceTheorems, TLAPS

Command == (1 .. MaxOps) \X Nat
Word(k) == <<ops, k>>     \* the k-th word of the current operation

\* The k-th word is asked for and unanswered, or the bus has refused it so far.
Asked(k)       == pend = Word(k) /\ maddr = Word(k + 1)
Refused(k)     == k > 0 /\ pend = None /\ maddr = Word(k)
Outstanding(k) == Asked(k) \/ Refused(k)

SbufAtRest   == sbuf_cnt = 0 /\ sbuf_cmd_cnt = 0
RowsumAtRest == rcv_idx = 0 /\ (~late => rowbuf_cnt = 0)

\* Only a rowsum whose third word came late leaves a read behind.
Idle == SbufAtRest /\ RowsumAtRest /\ (~late => pend = None)

\* The word outstanding is the one that lbuf_cnt counts.
Loading ==
  /\ SbufAtRest /\ RowsumAtRest /\ ~rcv_valid
  /\ Outstanding(lbuf_cnt)
  /\ \A i \in 0 .. clonum : i < lbuf_cnt => rowbuf[i] = <<Word(i)>>

\* The command counter counts the words written until it stops.
written == IF pend = None THEN sbuf_cnt ELSE sbuf_cnt + 1
StoredUpTo(k) == [i \in 1 .. k |-> [at |-> Word(i - 1), data |-> row[i - 1]]]
Storing ==
  /\ RowsumAtRest /\ ~rcv_valid
  /\ Outstanding(sbuf_cnt)
  /\ sbuf_cmd_cnt = (IF written > clonum THEN clonum ELSE written)
  /\ stored = StoredUpTo(written)
  /\ \A i \in 1 .. clonum : rowbuf[i] = row[i]

\* The steps of a row sum: a word is received in one cycle and added in the next.
FirstAsked == Asked(0) /\ rowbuf_cnt = 0 /\ rcv_idx = 0 /\ ~rcv_valid
FirstIn ==
  Outstanding(1) /\ rowbuf_cnt = 1 /\ rcv_valid /\ rcv_idx = 0 /\ rcv_buf = Word(0)
FirstDone ==
  Outstanding(1) /\ rowbuf_cnt = 1 /\ ~rcv_valid /\ rcv_idx = 0 /\ acc = <<Word(0)>>
SecondIn ==
  /\ Outstanding(2) /\ rowbuf_cnt = 2 /\ rcv_valid /\ rcv_idx = 1 /\ rcv_buf = Word(1)
  /\ acc = <<Word(0)>>
LastIn ==
  /\ pend = None /\ rowbuf_cnt = 0 /\ rcv_valid /\ rcv_idx = 2 /\ rcv_buf = Word(2)
  /\ acc = <<Word(0), Word(1)>>
Added ==
  /\ pend = None /\ rowbuf_cnt = 0 /\ ~rcv_valid /\ rcv_idx = 2
  /\ acc = <<Word(0), Word(1), Word(2)>>
Steps == FirstAsked \/ FirstIn \/ FirstDone \/ SecondIn \/ LastIn \/ Added

\* Once a third word has come late, only the counters are where they should be.
Adding == SbufAtRest /\ (rcv_idx = 2 => rowbuf_cnt = 0) /\ (~late => Steps)

Typed ==
  /\ TypeOK /\ late \in BOOLEAN
  /\ maddr \in {Junk} \cup Command /\ rcv_buf \in {Junk} \cup Command
  /\ state # "IDLE" => maddr \in Command

IInv ==
  /\ Typed
  /\ state = "IDLE" => Idle
  /\ state = "LBUF" => Loading
  /\ state = "SBUF" => Storing
  /\ state = "ROWSUM" => Adding

-----------------------------------------------------------------------------
(* Words, commands and types.                                              *)

\* A word is not the empty tuple that stands for no command.
LEMMA WordIsSome ==
  ASSUME NEW a, NEW b
  PROVE  <<a, b>> # None
<1>1. Len(<<a, b>>) = 2 /\ Len(<<>>) = 0
  OBVIOUS
<1> QED BY <1>1 DEF None

\* Appending to a short tuple makes the longer one.
LEMMA AppendTuple ==
  ASSUME NEW a, NEW b, NEW c
  PROVE  Append(<<a>>, b) = <<a, b>> /\ Append(<<a, b>>, c) = <<a, b, c>>
<1>1. Append(<<a>>, b) = <<a, b>>
  <2> DEFINE s == Append(<<a>>, b)
  <2>1. s \in Seq({a, b}) /\ Len(s) = 2 /\ s[1] = a /\ s[2] = b
    OBVIOUS
  <2>2. <<a, b>> \in Seq({a, b})
    OBVIOUS
  <2> HIDE DEF s
  <2>3. s = <<a, b>>
    BY <2>1, <2>2
  <2> QED BY <2>3 DEF s
<1>2. Append(<<a, b>>, c) = <<a, b, c>>
  <2> DEFINE s == Append(<<a, b>>, c)
  <2>1. s \in Seq({a, b, c}) /\ Len(s) = 3 /\ s[1] = a /\ s[2] = b /\ s[3] = c
    OBVIOUS
  <2>2. <<a, b, c>> \in Seq({a, b, c})
    OBVIOUS
  <2> HIDE DEF s
  <2>3. s = <<a, b, c>>
    BY <2>1, <2>2
  <2> QED BY <2>3 DEF s
<1> QED BY <1>1, <1>2

LEMMA InputType ==
  ASSUME NEW in \in Inputs
  PROVE  /\ in.rdy \in BOOLEAN /\ in.rsp \in BOOLEAN /\ in.ack \in BOOLEAN
         /\ in.req \in {"NONE", "LBUF", "SBUF", "ROWSUM"}
BY NiceAssumption DEF Inputs

\* The row buffer receives nothing but words and what the data bus idles at.
LEMMA RowBufType ==
  ASSUME Typed, NEW in \in Inputs, RowBuf(in)
  PROVE  rowbuf' \in [Idx -> Seq({Junk} \cup Command)]
<1> DEFINE W == {Junk} \cup Command
<1>1. lbuf_rsp(in) => pend \in W
  BY DEF Typed, TypeOK, lbuf_rsp, icb_rsp_hsked, Command
<1>2. rcv_buf \in W
  BY DEF Typed
<1>3. rowbuf \in [Idx -> Seq(W)]
  BY DEF Typed, TypeOK, Command
<1> HIDE DEF W
<1>4. ASSUME NEW x \in W PROVE <<x>> \in Seq(W)
  OBVIOUS
<1>5. ASSUME NEW s \in Seq(W), NEW x \in W PROVE Append(s, x) \in Seq(W)
  OBVIOUS
<1>6. rowbuf' \in [Idx -> Seq(W)]
  BY <1>1, <1>2, <1>3, <1>4, <1>5 DEF RowBuf
<1> QED BY <1>6 DEF W

\* A counter stops or starts again at the last word, so it never passes it.
LEMMA CounterType ==
  ASSUME Typed, NEW in \in Inputs, Cycle(in)
  PROVE  {lbuf_cnt, sbuf_cnt, sbuf_cmd_cnt, rowbuf_cnt, rcv_idx}' \subseteq 0 .. clonum
<1>1. /\ lbuf_cnt \in 0 .. 2 /\ sbuf_cnt \in 0 .. 2 /\ sbuf_cmd_cnt \in 0 .. 2
      /\ rowbuf_cnt \in 0 .. 2 /\ rcv_idx \in 0 .. 2
  BY DEF Typed, TypeOK, clonum
<1>2. ASSUME NEW c \in 0 .. 2, c # 2 PROVE Next2(c) \in 0 .. 2
  BY <1>2 DEF Next2
<1>3. lbuf_cnt' \in 0 .. 2
  BY <1>1, <1>2 DEF Cycle, LbufCnt, clonum
<1>4. sbuf_cnt' \in 0 .. 2 /\ sbuf_cmd_cnt' \in 0 .. 2
  BY <1>1, <1>2 DEF Cycle, SbufCnt, clonum
<1>5. rowbuf_cnt' \in 0 .. 2 /\ rcv_idx' \in 0 .. 2
  BY <1>1, <1>2 DEF Cycle, Rowsum, clonum
<1> QED BY <1>3, <1>4, <1>5 DEF clonum

\* A command is a word of an operation that the core has been let to request.
LEMMA CommandType ==
  ASSUME Typed, NEW in \in Inputs, Cycle(in)
  PROVE  /\ state' \in {"IDLE", "LBUF", "SBUF", "ROWSUM"} /\ ops' \in 0 .. MaxOps
         /\ pend' \in {None} \cup Command /\ maddr' \in {Junk} \cup Command
         /\ state' # "IDLE" => maddr' \in Command
<1>1. ops \in 0 .. MaxOps /\ MaxOps \in Nat /\ (state # "IDLE" => maddr \in Command)
  BY NiceAssumption DEF Typed, TypeOK
<1>2. icb_cmd_hsked(in) => (state = "IDLE" => ops < MaxOps)
  BY DEF icb_cmd_hsked, icb_cmd_valid, new_req, cmd_valid_lbuf, cmd_valid_sbuf, cmd_valid_rowsum
<1>3. icb_cmd_hsked(in) => cmd_word(in) \in Command
  BY <1>1, <1>2 DEF cmd_word, Command
<1>4. ASSUME NEW w \in Command PROVE <<w[1], w[2] + 1>> \in Command
  BY DEF Command
<1>5. req_hsked(in) =>
        icb_cmd_hsked(in) /\ ops < MaxOps /\ in.req \in {"LBUF", "SBUF", "ROWSUM"}
  BY InputType DEF req_hsked, new_req
<1>6. /\ state' \in {"IDLE", "LBUF", "SBUF", "ROWSUM"}
      /\ ops' \in 0 .. MaxOps
      /\ state' # "IDLE" => req_hsked(in) \/ state # "IDLE"
  BY <1>1, <1>5 DEF Cycle, FSM, Typed, TypeOK
<1>7. pend' \in {None} \cup Command
  BY <1>3 DEF Cycle, Memory, Typed, TypeOK, Command
<1>8. maddr' = (IF icb_cmd_hsked(in) THEN <<cmd_word(in)[1], cmd_word(in)[2] + 1>> ELSE maddr)
  BY DEF Cycle, Memory
<1>9. maddr' \in {Junk} \cup Command /\ (state' # "IDLE" => maddr' \in Command)
  BY <1>1, <1>3, <1>4, <1>5, <1>6, <1>8 DEF Typed
<1> QED BY <1>6, <1>7, <1>9

LEMMA TypedStep ==
  ASSUME Typed, NEW in \in Inputs, Cycle(in)
  PROVE  Typed'
<1>1. rowbuf' \in [Idx -> Seq({Junk} \cup Command)]
  BY RowBufType DEF Cycle
<1>2. rcv_valid' \in BOOLEAN
  <2>1. rcv_valid' = (rowbuf_rsp(in) \/ rowsum_done(in))
    BY Zenon DEF Cycle, Rowsum
  <2>2. (rowbuf_rsp(in) \/ rowsum_done(in)) \in BOOLEAN
    BY Zenon
  <2> QED BY <2>1, <2>2, Zenon
<1>3. rcv_buf' \in {Junk} \cup Command
  <2>1. rdata(in) \in {Junk} \cup Command
    BY DEF rdata, icb_rsp_hsked, Typed, TypeOK, Command
  <2> QED BY <2>1 DEF Cycle, Rowsum, Typed
<1>4. late' \in BOOLEAN
  BY Zenon DEF Cycle, FSM
<1>5. TypeOK'
  BY <1>1, <1>2, CounterType, CommandType, Zenon DEF TypeOK, Command
<1> QED BY <1>3, <1>4, <1>5, CommandType, Zenon DEF Typed

LEMMA InitHolds == Init => IInv
<1> SUFFICES ASSUME Init PROVE IInv
  OBVIOUS
<1>1. rowbuf \in [Idx -> Seq({Junk} \cup ((1 .. MaxOps) \X Nat))]
  <2>1. <<>> \in Seq({Junk} \cup ((1 .. MaxOps) \X Nat))
    OBVIOUS
  <2> QED BY <2>1 DEF Init
<1>2. TypeOK
  <2>1. pend \in {None} \cup ((1 .. MaxOps) \X Nat)
    BY Zenon DEF Init
  <2>2. {lbuf_cnt, sbuf_cnt, sbuf_cmd_cnt, rowbuf_cnt, rcv_idx} \subseteq 0 .. clonum
    BY DEF Init, clonum
  <2>3. state \in {"IDLE", "LBUF", "SBUF", "ROWSUM"} /\ ops \in 0 .. MaxOps
    BY NiceAssumption DEF Init
  <2>4. rcv_valid \in BOOLEAN
    BY Zenon DEF Init
  <2> QED BY <2>1, <2>2, <2>3, <2>4, <1>1, Zenon DEF TypeOK
<1>3. state = "IDLE" /\ Idle
  BY DEF Init, Idle, SbufAtRest, RowsumAtRest
<1>4. maddr \in {Junk} \cup Command /\ rcv_buf \in {Junk} \cup Command /\ late \in BOOLEAN
  BY Zenon DEF Init
<1>5. Typed
  BY <1>2, <1>3, <1>4, Zenon DEF Typed
<1> QED BY <1>3, <1>5 DEF IInv

-----------------------------------------------------------------------------
(* A step of each state.                                                   *)

\* Within an operation only the address of the next word is asked for.
LEMMA BusyStep ==
  ASSUME NEW in \in Inputs, Cycle(in), state # "IDLE"
  PROVE  /\ ~new_req(in) /\ ~req_hsked(in)
         /\ state' = (IF done(in) THEN "IDLE" ELSE state) /\ ops' = ops /\ row' = row
         /\ pend' = (IF icb_cmd_hsked(in) THEN maddr ELSE IF icb_rsp_hsked(in) THEN None ELSE pend)
         /\ maddr' = (IF icb_cmd_hsked(in) THEN <<maddr[1], maddr[2] + 1>> ELSE maddr)
<1>1. ~new_req(in) /\ ~req_hsked(in) /\ cmd_word(in) = maddr
  BY DEF new_req, req_hsked, cmd_word
<1>2. state' = (IF done(in) THEN "IDLE" ELSE state) /\ ops' = ops /\ row' = row
  BY <1>1 DEF Cycle, FSM
<1>3. /\ pend' = (IF icb_cmd_hsked(in) THEN maddr ELSE IF icb_rsp_hsked(in) THEN None ELSE pend)
      /\ maddr' = (IF icb_cmd_hsked(in) THEN <<maddr[1], maddr[2] + 1>> ELSE maddr)
  BY <1>1 DEF Cycle, Memory
<1> QED BY <1>1, <1>2, <1>3

\* An answer moves an operation on to its next word; a command only leaves when
\* the word before it is answered.
LEMMA OutstandingStep ==
  ASSUME NEW k \in Nat, Outstanding(k), NEW in \in Inputs, Cycle(in), state # "IDLE"
  PROVE  /\ icb_rsp_hsked(in) => Asked(k) /\ Outstanding(k + 1)'
         /\ ~icb_rsp_hsked(in) => Outstanding(k)'
         /\ Asked(k) /\ ~icb_rsp_hsked(in) => Asked(k)'
         /\ icb_rsp_hsked(in) /\ ~icb_cmd_hsked(in) => pend' = None
         /\ pend = None => (pend' = None <=> ~icb_cmd_hsked(in))
         /\ Asked(k) => (icb_cmd_hsked(in) => icb_rsp_hsked(in)) /\ pend # None
         /\ icb_cmd_hsked(in) => pend' # None
<1>1. /\ ops' = ops
      /\ pend' = (IF icb_cmd_hsked(in) THEN maddr ELSE IF icb_rsp_hsked(in) THEN None ELSE pend)
      /\ maddr' = (IF icb_cmd_hsked(in) THEN <<maddr[1], maddr[2] + 1>> ELSE maddr)
  BY BusyStep
<1>2. Word(k) # None /\ Word(k + 1) # None /\ k + 1 > 0
  BY WordIsSome DEF Word
<1>3. /\ Word(k)' = Word(k) /\ Word(k + 1)' = Word(k + 1) /\ Word(k + 2)' = Word(k + 2)
      /\ <<Word(k)[1], Word(k)[2] + 1>> = Word(k + 1)
      /\ <<Word(k + 1)[1], Word(k + 1)[2] + 1>> = Word(k + 2)
  BY <1>1 DEF Word
<1>4. icb_rsp_hsked(in) => pend # None
  BY DEF icb_rsp_hsked
<1>5. icb_cmd_hsked(in) => pend = None \/ icb_rsp_hsked(in)
  BY DEF icb_cmd_hsked
<1>6. CASE Asked(k)
  <2>1. pend = Word(k) /\ maddr = Word(k + 1)
    BY <1>6 DEF Asked
  <2>2. CASE icb_rsp_hsked(in) /\ icb_cmd_hsked(in)
    <3>1. pend' = Word(k + 1) /\ maddr' = Word(k + 2)
      BY <2>1, <2>2, <1>1, <1>3
    <3>2. Asked(k + 1)'
      BY <3>1, <1>3 DEF Asked
    <3> QED BY <2>2, <3>1, <3>2, <1>2, <1>4, <1>6 DEF Outstanding
  <2>3. CASE icb_rsp_hsked(in) /\ ~icb_cmd_hsked(in)
    <3>1. pend' = None /\ maddr' = Word(k + 1)
      BY <2>1, <2>3, <1>1
    <3>2. Refused(k + 1)'
      BY <3>1, <1>2, <1>3 DEF Refused
    <3> QED BY <2>3, <3>1, <3>2, <1>2, <1>4, <1>6 DEF Outstanding
  <2>4. CASE ~icb_rsp_hsked(in)
    <3>1. ~icb_cmd_hsked(in) /\ pend # None
      BY <2>1, <2>4, <1>2, <1>5
    <3>2. pend' = Word(k) /\ maddr' = Word(k + 1)
      BY <2>1, <2>4, <3>1, <1>1
    <3>3. Asked(k)'
      BY <3>2, <1>3 DEF Asked
    <3> QED BY <2>4, <3>1, <3>2, <3>3, <1>6 DEF Outstanding
  <2> QED BY <2>2, <2>3, <2>4
<1>7. CASE ~Asked(k) /\ Refused(k)
  <2>1. pend = None /\ maddr = Word(k) /\ k > 0 /\ ~icb_rsp_hsked(in)
    BY <1>4, <1>7 DEF Refused
  <2>2. CASE icb_cmd_hsked(in)
    <3>1. pend' = Word(k) /\ maddr' = Word(k + 1)
      BY <2>1, <2>2, <1>1, <1>3
    <3>2. Asked(k)'
      BY <3>1, <1>3 DEF Asked
    <3> QED BY <2>1, <2>2, <3>1, <3>2, <1>2, <1>7 DEF Outstanding
  <2>3. CASE ~icb_cmd_hsked(in)
    <3>1. pend' = None /\ maddr' = Word(k)
      BY <2>1, <2>3, <1>1
    <3>2. Refused(k)'
      BY <2>1, <3>1, <1>3 DEF Refused
    <3> QED BY <2>1, <2>3, <3>1, <3>2, <1>7 DEF Outstanding
  <2> QED BY <2>2, <2>3
<1> QED BY <1>6, <1>7 DEF Outstanding

\* A row sum comes late only from its second word.
LEMMA LateStep ==
  ASSUME Typed, NEW in \in Inputs, Cycle(in)
  PROVE  /\ ~late' => ~late
         /\ state # "ROWSUM" => late' = late
         /\ ~late' /\ state = "ROWSUM" /\ rcv_valid /\ rcv_idx = 1 => icb_rsp_hsked(in)
<1>1. late' = (late \/ (state = "ROWSUM" /\ rcv_valid /\ rcv_idx = 1 /\ ~icb_rsp_hsked(in)))
  BY DEF Cycle, FSM
<1> QED BY <1>1, Zenon DEF Typed

\* A cycle in which no request is taken only drops what a late word left behind.
LEMMA IdleStep ==
  ASSUME IInv, NEW in \in Inputs, Cycle(in), state = "IDLE", ~icb_cmd_hsked(in)
  PROVE  IInv' /\ state' = "IDLE"
<1>1. Idle /\ Typed
  BY DEF IInv
<1>2. ~req_hsked(in) /\ ~sbuf_cmd(in) /\ ~lbuf_rsp(in) /\ ~sbuf_rsp(in)
      /\ ~rowbuf_rsp(in) /\ ~rowsum_done(in) /\ ~done(in)
  BY DEF req_hsked, sbuf_cmd, lbuf_rsp, sbuf_rsp, rowbuf_rsp, rowsum_done, rsp_valid_rowsum, done
<1>3. state' = "IDLE" /\ (pend = None => pend' = None) /\ (~late' => ~late)
  BY <1>1, <1>2, LateStep DEF Cycle, FSM, Memory, icb_rsp_hsked
<1>4. SbufAtRest' /\ rcv_idx' = rcv_idx /\ rowbuf_cnt' = rowbuf_cnt
  BY <1>1, <1>2 DEF Cycle, SbufCnt, Rowsum, Idle, SbufAtRest
<1>5. Idle'
  BY <1>1, <1>3, <1>4 DEF Idle, RowsumAtRest
<1> QED BY <1>1, <1>3, <1>5, TypedStep DEF IInv

\* A request starts its operation from counters at rest; sbuf's first word is
\* the row buffer's as the request finds it.
LEMMA RequestStep ==
  ASSUME IInv, NEW in \in Inputs, Cycle(in), state = "IDLE", icb_cmd_hsked(in)
  PROVE  IInv' /\ state' # "IDLE"
<1>1. Idle /\ Typed /\ ops \in Nat
  BY NiceAssumption DEF IInv, Typed, TypeOK
<1>2. new_req(in) /\ req_hsked(in)
  BY DEF icb_cmd_hsked, icb_cmd_valid, req_hsked, cmd_valid_lbuf, cmd_valid_sbuf, cmd_valid_rowsum
<1>3. in.req \in {"LBUF", "SBUF", "ROWSUM"}
  BY <1>2, InputType DEF new_req
<1>4. /\ ~lbuf_rsp(in) /\ ~sbuf_rsp(in) /\ ~rowbuf_rsp(in) /\ ~rowsum_done(in)
      /\ sbuf_cmd(in) <=> in.req = "SBUF"
  BY <1>2 DEF lbuf_rsp, sbuf_rsp, rowbuf_rsp, rowsum_done, rsp_valid_rowsum, sbuf_cmd
<1>5. state' = in.req /\ ops' = ops + 1 /\ row' = rowbuf /\ late' = late
  BY <1>1, <1>2, LateStep DEF Cycle, FSM
<1>6. Asked(0)' /\ pend' # None
  <2>1. cmd_word(in) = <<ops + 1, 0>> /\ pend' = cmd_word(in)
        /\ maddr' = <<cmd_word(in)[1], cmd_word(in)[2] + 1>>
    BY DEF cmd_word, Cycle, Memory
  <2>2. maddr' = <<ops + 1, 1>>
    BY <2>1
  <2> QED BY <2>1, <2>2, <1>5, WordIsSome DEF Asked, Word
<1>7. RowsumAtRest' /\ rowbuf_cnt' = rowbuf_cnt /\ rcv_idx' = 0 /\ ~rcv_valid' /\ sbuf_cnt' = 0
  BY <1>1, <1>4, <1>5 DEF Cycle, Rowsum, SbufCnt, Idle, SbufAtRest, RowsumAtRest
<1>8. /\ lbuf_cnt' = (IF in.req = "LBUF" THEN 0 ELSE lbuf_cnt)
      /\ sbuf_cmd_cnt' = (IF in.req = "SBUF" THEN 1 ELSE 0)
  BY <1>1, <1>2, <1>4 DEF Cycle, LbufCnt, SbufCnt, Idle, SbufAtRest, clonum, Next2
<1>9. in.req = "LBUF" => Loading'
  BY <1>6, <1>7, <1>8 DEF Loading, Outstanding, SbufAtRest, clonum
<1>10. in.req = "SBUF" => Storing'
  <2> SUFFICES ASSUME in.req = "SBUF" PROVE Storing'
    OBVIOUS
  <2>1. stored' = <<[at |-> <<ops + 1, 0>>, data |-> rowbuf[0]]>>
    <3>1. cmd_word(in) = <<ops + 1, 0>> /\ rowbuf[sbuf_cmd_cnt] = rowbuf[0]
      BY <1>1 DEF cmd_word, Idle, SbufAtRest
    <3> DEFINE first == [at |-> <<ops + 1, 0>>, data |-> rowbuf[0]]
    <3>2. stored' = <<>> \o <<first>>
      BY <1>4, <3>1 DEF Cycle, Memory
    <3>3. <<>> \o <<first>> = <<first>>
      OBVIOUS
    <3> QED BY <3>2, <3>3
  <2>2. written' = 1 /\ sbuf_cmd_cnt' = 1
    BY <1>6, <1>7, <1>8 DEF written
  <2>3. stored' = StoredUpTo(written)'
    <3>1. StoredUpTo(written)' = [i \in 1 .. 1 |-> [at |-> <<ops + 1, i - 1>>, data |-> rowbuf[i - 1]]]
      BY <1>5, <2>2 DEF StoredUpTo, Word
    <3> QED BY <3>1, <2>1
  <2>4. \A i \in 1 .. clonum : rowbuf'[i] = row'[i]
    <3>1. \A i \in 1 .. clonum : i \in Idx /\ i # rcv_idx
      BY <1>1 DEF Idle, RowsumAtRest, clonum, Idx
    <3> QED BY <3>1, <1>4, <1>5 DEF Cycle, RowBuf
  <2> QED BY <2>2, <2>3, <2>4, <1>6, <1>7 DEF Storing, Outstanding, clonum
<1>11. in.req = "ROWSUM" => Adding'
  <2>1. ~late' => rowbuf_cnt' = 0
    BY <1>1, <1>5, <1>7 DEF Idle, RowsumAtRest
  <2> QED BY <2>1, <1>6, <1>7, <1>8 DEF Adding, Steps, FirstAsked, SbufAtRest
<1> QED BY <1>1, <1>3, <1>5, <1>9, <1>10, <1>11, TypedStep DEF IInv

\* While lbuf loads, each answer is the word that the counter names.
LEMMA LbufStep ==
  ASSUME IInv, NEW in \in Inputs, Cycle(in), state = "LBUF"
  PROVE  /\ IInv'
         /\ state' = "IDLE" => \A i \in 0 .. clonum : rowbuf'[i] = <<Words(ops)[i]>>
<1> DEFINE rsp == icb_rsp_hsked(in)
<1>1. Typed /\ Loading /\ lbuf_cnt \in 0 .. 2 /\ Outstanding(lbuf_cnt)
  BY DEF IInv, Typed, TypeOK, Loading, clonum
<1>2. /\ ~sbuf_cmd(in) /\ ~sbuf_rsp(in) /\ ~rowbuf_rsp(in) /\ ~rowsum_done(in) /\ ~req_hsked(in)
      /\ (lbuf_rsp(in) <=> rsp) /\ (done(in) <=> rsp /\ lbuf_cnt = 2)
      /\ icb_cmd_hsked(in) => lbuf_cnt < 2
  <2>1. /\ ~sbuf_cmd(in) /\ ~sbuf_rsp(in) /\ ~rowbuf_rsp(in) /\ ~rowsum_done(in) /\ ~req_hsked(in)
        /\ (lbuf_rsp(in) <=> rsp)
    BY BusyStep DEF sbuf_cmd, sbuf_rsp, rowbuf_rsp, rowsum_done, rsp_valid_rowsum, lbuf_rsp
  <2>2. done(in) <=> rsp /\ lbuf_cnt = 2
    BY <2>1 DEF done, clonum
  <2>3. icb_cmd_hsked(in) => lbuf_cnt < 2
    BY BusyStep DEF icb_cmd_hsked, icb_cmd_valid, cmd_valid_lbuf, cmd_valid_sbuf, cmd_valid_rowsum,
                    clonum
  <2> QED BY <2>1, <2>2, <2>3
<1>3. /\ state' = (IF rsp /\ lbuf_cnt = 2 THEN "IDLE" ELSE "LBUF") /\ ops' = ops
      /\ SbufAtRest' /\ RowsumAtRest' /\ ~rcv_valid'
      /\ lbuf_cnt' = (IF rsp /\ lbuf_cnt # 2 THEN lbuf_cnt + 1 ELSE lbuf_cnt)
  <2>1. state' = (IF rsp /\ lbuf_cnt = 2 THEN "IDLE" ELSE "LBUF") /\ ops' = ops
    BY <1>2, BusyStep
  <2>2. late' = late
    BY <1>1, LateStep
  <2>3. SbufAtRest' /\ RowsumAtRest' /\ ~rcv_valid'
    BY <2>2, <1>1, <1>2 DEF Cycle, SbufCnt, Rowsum, Loading, SbufAtRest, RowsumAtRest
  <2>4. lbuf_cnt' = (IF rsp /\ lbuf_cnt # 2 THEN lbuf_cnt + 1 ELSE lbuf_cnt)
    BY <1>1, <1>2 DEF Cycle, LbufCnt, Next2, clonum
  <2> QED BY <2>1, <2>3, <2>4
<1>4. rsp => pend = <<ops, lbuf_cnt>>
  BY <1>1, OutstandingStep DEF Asked, Word
<1>5. \A i \in 0 .. 2 :
        rowbuf'[i] = IF rsp /\ i = lbuf_cnt THEN <<<<ops, i>>>> ELSE rowbuf[i]
  BY <1>1, <1>2, <1>4 DEF Cycle, RowBuf, Loading, Idx
<1>6. \A i \in 0 .. 2 : i < lbuf_cnt => rowbuf[i] = <<<<ops, i>>>>
  BY <1>1 DEF Loading, Word, clonum
<1> HIDE DEF rsp
<1>7. CASE ~(rsp /\ lbuf_cnt = 2)
  <2>1. Outstanding(lbuf_cnt)'
    <3>1. PICK k \in 0 .. 2 : k = lbuf_cnt
      BY <1>1
    <3>2. (rsp => Outstanding(k + 1)') /\ (~rsp => Outstanding(k)')
      BY <3>1, <1>1, OutstandingStep DEF rsp
    <3>3. lbuf_cnt' = (IF rsp THEN k + 1 ELSE k)
      BY <3>1, <1>3, <1>7
    <3> QED BY <3>2, <3>3 DEF Outstanding, Asked, Refused
  <2>2. \A i \in 0 .. 2 : i < lbuf_cnt' => rowbuf'[i] = <<<<ops, i>>>>
    BY <1>1, <1>3, <1>5, <1>6
  <2>3. Loading'
    BY <2>1, <2>2, <1>3 DEF Loading, Word, clonum
  <2> QED BY <2>3, <1>1, <1>3, <1>7, TypedStep DEF IInv
<1>8. CASE rsp /\ lbuf_cnt = 2
  <2>1. pend' = None /\ state' = "IDLE"
    BY <1>8, <1>1, <1>2, <1>3, OutstandingStep DEF rsp
  <2>2. Idle'
    BY <2>1, <1>3 DEF Idle
  <2>3. \A i \in 0 .. clonum : rowbuf'[i] = <<Words(ops)[i]>>
    BY <1>5, <1>6, <1>8 DEF Words, clonum
  <2> QED BY <2>1, <2>2, <2>3, <1>1, TypedStep DEF IInv
<1> QED BY <1>7, <1>8

\* A row with one more word in it.
LEMMA OneMoreWord ==
  ASSUME NEW n \in Nat, NEW f
  PROVE  [i \in 1 .. n |-> f[i]] \o <<f[n + 1]>> = [i \in 1 .. n + 1 |-> f[i]]
<1> DEFINE s == [i \in 1 .. n |-> f[i]]
           t == s \o <<f[n + 1]>>
<1>1. s \in Seq({f[i] : i \in 1 .. n}) /\ Len(s) = n
  OBVIOUS
<1>2. Len(t) = n + 1 /\ DOMAIN t = 1 .. n + 1
  BY <1>1
<1>3. ASSUME NEW i \in 1 .. n + 1 PROVE t[i] = f[i]
  <2>1. CASE i \in 1 .. n
    <3>1. t[i] = s[i]
      BY <2>1, <1>1
    <3> QED BY <3>1, <2>1
  <2>2. CASE i = n + 1
    BY <2>2, <1>1
  <2> QED BY <2>1, <2>2
<1>4. t \in Seq({f[i] : i \in 1 .. n + 1})
  BY <1>1, <1>2, <1>3
<1>5. t = [i \in 1 .. n + 1 |-> t[i]]
  <2> HIDE DEF t
  <2> QED BY <1>2, <1>4
<1> QED BY <1>3, <1>5, Zenon

\* While sbuf stores, the word that the command counter names goes out when the
\* bus takes it, in the cycle of the answer to the word before it or later.
LEMMA SbufStep ==
  ASSUME IInv, NEW in \in Inputs, Cycle(in), state = "SBUF"
  PROVE  /\ IInv'
         /\ state' = "IDLE" =>
              stored' = [i \in 1 .. clonum + 1 |->
                           [at |-> Words(ops)[i - 1], data |-> row[i - 1]]]
<1> DEFINE rsp == icb_rsp_hsked(in)
           cmd == icb_cmd_hsked(in)
<1>1. Typed /\ Storing
  BY DEF IInv
<1>2. PICK k \in 0 .. 2 : k = sbuf_cnt
  BY <1>1 DEF Typed, TypeOK, clonum
<1>3. PICK n \in 0 .. 3 : n = written
  BY <1>2 DEF written
<1>4. /\ Outstanding(k) /\ n = (IF pend = None THEN k ELSE k + 1)
      /\ sbuf_cmd_cnt = (IF n > 2 THEN 2 ELSE n)
      /\ pend = None => k > 0
  BY <1>1, <1>2, <1>3, WordIsSome DEF Storing, written, clonum, Outstanding, Asked, Refused, Word
<1>5. /\ rsp => Asked(k) /\ Outstanding(k + 1)'
      /\ ~rsp => Outstanding(k)'
      /\ pend' = (IF cmd THEN maddr ELSE IF rsp THEN None ELSE pend)
      /\ cmd => pend' # None
      /\ rsp => pend # None
      /\ cmd => pend = None \/ rsp
  BY <1>4, OutstandingStep, BusyStep DEF icb_rsp_hsked, icb_cmd_hsked
<1>6. /\ ~lbuf_rsp(in) /\ ~rowbuf_rsp(in) /\ ~rowsum_done(in) /\ ~req_hsked(in)
      /\ (sbuf_rsp(in) <=> rsp) /\ (done(in) <=> rsp /\ k = 2)
      /\ cmd => k # 2
      /\ sbuf_cmd(in) <=> cmd
  <2>1. /\ ~lbuf_rsp(in) /\ ~rowbuf_rsp(in) /\ ~rowsum_done(in) /\ ~req_hsked(in)
        /\ (sbuf_rsp(in) <=> rsp)
    BY BusyStep DEF sbuf_rsp, rowbuf_rsp, rowsum_done, rsp_valid_rowsum, lbuf_rsp
  <2>2. done(in) <=> rsp /\ k = 2
    BY <2>1, <1>2 DEF done, clonum
  <2>3. cmd => k # 2
    BY <1>2, BusyStep DEF icb_cmd_hsked, icb_cmd_valid, cmd_valid_lbuf, cmd_valid_sbuf,
                          cmd_valid_rowsum, clonum
  <2>4. sbuf_cmd(in) <=> cmd
    BY BusyStep DEF sbuf_cmd
  <2> QED BY <2>1, <2>2, <2>3, <2>4
<1>7. /\ state' = (IF rsp /\ k = 2 THEN "IDLE" ELSE "SBUF") /\ ops' = ops /\ row' = row
      /\ RowsumAtRest' /\ ~rcv_valid'
      /\ sbuf_cnt' = (IF ~rsp THEN k ELSE IF k = 2 THEN 0 ELSE k + 1)
      /\ sbuf_cmd_cnt' = (IF rsp /\ k = 2 THEN 0
                          ELSE IF cmd /\ sbuf_cmd_cnt # 2 THEN sbuf_cmd_cnt + 1 ELSE sbuf_cmd_cnt)
  <2>1. state' = (IF rsp /\ k = 2 THEN "IDLE" ELSE "SBUF") /\ ops' = ops /\ row' = row
    BY <1>6, BusyStep
  <2>2. late' = late
    BY <1>1, LateStep
  <2>3. RowsumAtRest' /\ ~rcv_valid'
    BY <2>2, <1>1, <1>6 DEF Cycle, Rowsum, Storing, RowsumAtRest
  <2>4. sbuf_cnt' = (IF ~rsp THEN k ELSE IF k = 2 THEN 0 ELSE k + 1)
    BY <1>2, <1>6 DEF Cycle, SbufCnt, Next2, clonum
  <2>5. sbuf_cmd_cnt \in 0 .. 2
    BY <1>4
  <2>6. sbuf_cmd_cnt' = (IF rsp /\ k = 2 THEN 0
                         ELSE IF cmd /\ sbuf_cmd_cnt # 2 THEN sbuf_cmd_cnt + 1 ELSE sbuf_cmd_cnt)
    BY <2>5, <1>2, <1>6 DEF Cycle, SbufCnt, Next2, clonum
  <2> QED BY <2>1, <2>3, <2>4, <2>6
<1>8. \A i \in 1 .. 2 : rowbuf'[i] = rowbuf[i] /\ rowbuf[i] = row[i]
  BY <1>1, <1>6 DEF Cycle, RowBuf, Storing, Idx, clonum
<1>9. stored = StoredUpTo(n)
  BY <1>1, <1>3 DEF Storing
<1>10. stored' = IF cmd THEN StoredUpTo(n + 1) ELSE stored
  <2>1. CASE cmd
    <3>1. maddr = Word(n) /\ n \in 1 .. 2
      <4>1. CASE rsp
        <5>1. n = k + 1 /\ k \in 0 .. 1 /\ maddr = Word(k + 1)
          BY <2>1, <4>1, <1>2, <1>4, <1>5, <1>6 DEF Asked
        <5> QED BY <5>1
      <4>2. CASE ~rsp
        <5>1. n = k /\ k \in 1 .. 2 /\ pend = None
          BY <2>1, <4>2, <1>2, <1>4, <1>5
        <5>2. Refused(k)
          BY <5>1, <1>4, WordIsSome DEF Outstanding, Asked, Word
        <5> QED BY <5>1, <5>2 DEF Refused
      <4> QED BY <4>1, <4>2
    <3>2. cmd_word(in) = Word(n) /\ sbuf_cmd_cnt = n
      BY <3>1, <1>4 DEF cmd_word
    <3>3. stored' = stored \o <<[at |-> Word(n), data |-> row[n]]>>
      BY <2>1, <3>1, <3>2, <1>6, <1>8 DEF Cycle, Memory
    <3> DEFINE f == [i \in 1 .. 3 |-> [at |-> Word(i - 1), data |-> row[i - 1]]]
    <3>4. StoredUpTo(n) = [i \in 1 .. n |-> f[i]] /\ StoredUpTo(n + 1) = [i \in 1 .. n + 1 |-> f[i]]
      BY <3>1 DEF StoredUpTo
    <3>5. f[n + 1] = [at |-> Word(n), data |-> row[n]]
      BY <3>1
    <3> HIDE DEF f
    <3>6. [i \in 1 .. n |-> f[i]] \o <<f[n + 1]>> = [i \in 1 .. n + 1 |-> f[i]]
      BY OneMoreWord
    <3> QED BY <2>1, <3>3, <3>4, <3>5, <3>6, <1>9
  <2>2. CASE ~cmd
    BY <2>2, <1>6 DEF Cycle, Memory
  <2> QED BY <2>1, <2>2
<1> HIDE DEF rsp, cmd
<1>11. CASE ~(rsp /\ k = 2)
  <2>1. Outstanding(sbuf_cnt)'
    BY <1>2, <1>5, <1>7, <1>11 DEF Outstanding, Asked, Refused
  <2>2. written' = (IF cmd THEN n + 1 ELSE n)
    <3>1. written' = (IF pend' = None THEN sbuf_cnt' ELSE sbuf_cnt' + 1)
      BY DEF written
    <3> QED BY <3>1, <1>4, <1>5, <1>7, <1>11
  <2>3. sbuf_cmd_cnt' = (IF written' > 2 THEN 2 ELSE written')
    BY <2>2, <1>2, <1>3, <1>4, <1>7, <1>11
  <2>4. stored' = StoredUpTo(written)'
    <3>1. StoredUpTo(written)' = StoredUpTo(IF cmd THEN n + 1 ELSE n)
      BY <2>2, <1>7 DEF StoredUpTo, Word
    <3> QED BY <3>1, <1>9, <1>10
  <2>5. Storing'
    BY <2>1, <2>3, <2>4, <1>7, <1>8 DEF Storing, clonum
  <2> QED BY <2>5, <1>1, <1>7, <1>11, TypedStep DEF IInv
<1>12. CASE rsp /\ k = 2
  <2>1. pend' = None /\ state' = "IDLE" /\ n = 3 /\ ~cmd
    BY <1>12, <1>4, <1>5, <1>6, <1>7
  <2>2. Idle'
    BY <2>1, <1>7, <1>12 DEF Idle, SbufAtRest
  <2>3. stored' = [i \in 1 .. clonum + 1 |-> [at |-> Words(ops)[i - 1], data |-> row[i - 1]]]
    <3>1. \A i \in 1 .. 3 : Words(ops)[i - 1] = <<ops, i - 1>>
      BY DEF Words, clonum
    <3> QED BY <3>1, <2>1, <1>9, <1>10 DEF StoredUpTo, Word, clonum
  <2> QED BY <2>1, <2>2, <2>3, <1>1, TypedStep DEF IInv
<1> QED BY <1>11, <1>12

\* A row sum goes through its steps as long as no third word comes late; what the
\* core takes at the last one is the sum of the three words.
LEMMA RowsumStep ==
  ASSUME IInv, NEW in \in Inputs, Cycle(in), state = "ROWSUM"
  PROVE  /\ IInv'
         /\ ~late /\ state' = "IDLE" => Adds(acc)
<1> DEFINE rsp == icb_rsp_hsked(in)
           cmd == icb_cmd_hsked(in)
           end == rowsum_done(in)
<1>1. Typed /\ Adding /\ SbufAtRest /\ rowbuf_cnt \in 0 .. 2 /\ rcv_idx \in 0 .. 2
  BY DEF IInv, Typed, TypeOK, Adding, clonum
<1>2. /\ ~lbuf_rsp(in) /\ ~sbuf_rsp(in) /\ ~sbuf_cmd(in) /\ (rowbuf_rsp(in) <=> rsp)
      /\ cmd => rcv_idx # 2 /\ ~acc_flg
      /\ end <=> rcv_idx = 2 /\ ~rcv_valid /\ in.ack
      /\ done(in) <=> end
  <2>1. ~lbuf_rsp(in) /\ ~sbuf_rsp(in) /\ ~sbuf_cmd(in) /\ (rowbuf_rsp(in) <=> rsp)
    BY BusyStep DEF sbuf_cmd, sbuf_rsp, rowbuf_rsp, lbuf_rsp
  <2>2. cmd => rcv_idx # 2 /\ ~acc_flg
    BY BusyStep DEF icb_cmd_hsked, icb_cmd_valid, cmd_valid_lbuf, cmd_valid_sbuf,
                    cmd_valid_rowsum, clonum
  <2>3. end <=> rcv_idx = 2 /\ ~rcv_valid /\ in.ack
    BY DEF rowsum_done, rsp_valid_rowsum, acc_flg, clonum
  <2>4. done(in) <=> end
    BY <2>1 DEF done
  <2> QED BY <2>1, <2>2, <2>3, <2>4
<1>3. /\ state' = (IF end THEN "IDLE" ELSE "ROWSUM") /\ ops' = ops
      /\ pend' = (IF cmd THEN maddr ELSE IF rsp THEN None ELSE pend)
      /\ SbufAtRest'
      /\ rowbuf_cnt' = (IF ~rsp THEN rowbuf_cnt ELSE IF rowbuf_cnt = 2 THEN 0 ELSE rowbuf_cnt + 1)
      /\ rcv_valid' <=> rsp \/ end
      /\ rcv_buf' = (IF rsp THEN pend ELSE IF end THEN Junk ELSE rcv_buf)
      /\ rcv_idx' = (IF rsp THEN rowbuf_cnt ELSE IF end THEN 0 ELSE rcv_idx)
  <2>1. /\ state' = (IF end THEN "IDLE" ELSE "ROWSUM") /\ ops' = ops
        /\ pend' = (IF cmd THEN maddr ELSE IF rsp THEN None ELSE pend)
    BY <1>2, BusyStep
  <2>2. SbufAtRest'
    BY <1>1, <1>2 DEF Cycle, SbufCnt, SbufAtRest
  <2>3. rowbuf_cnt' = (IF ~rsp THEN rowbuf_cnt ELSE IF rowbuf_cnt = 2 THEN 0 ELSE rowbuf_cnt + 1)
    BY <1>1, <1>2 DEF Cycle, Rowsum, Next2, clonum
  <2>4. /\ rcv_valid' <=> rsp \/ end
        /\ rcv_buf' = (IF rsp THEN pend ELSE IF end THEN Junk ELSE rcv_buf)
        /\ rcv_idx' = (IF rsp THEN rowbuf_cnt ELSE IF end THEN 0 ELSE rcv_idx)
    BY <1>2 DEF Cycle, Rowsum, rdata
  <2> QED BY <2>1, <2>2, <2>3, <2>4
<1>4. acc' = (IF ~rcv_valid THEN acc ELSE IF rcv_idx = 0 THEN <<rcv_buf>> ELSE Append(acc, rcv_buf))
  BY DEF Cycle, Rowsum, acc_set, acc_flg
<1>5. /\ rsp => pend # None
      /\ cmd => pend = None \/ rsp
      /\ ~late' => ~late
      /\ ~late' /\ rcv_valid /\ rcv_idx = 1 => rsp
  BY <1>1, LateStep DEF icb_rsp_hsked, icb_cmd_hsked
<1>6. ASSUME NEW k \in Nat, Outstanding(k)
      PROVE  /\ rsp => Asked(k) /\ Outstanding(k + 1)'
             /\ ~rsp => Outstanding(k)'
             /\ Asked(k) /\ ~rsp => Asked(k)'
             /\ rsp /\ ~cmd => pend' = None
  BY <1>6, OutstandingStep
<1>7. \A k \in Nat : Word(k)' = Word(k) /\ Word(k) # None
  BY <1>3, WordIsSome DEF Word
<1>8. (rcv_idx = 2 => rowbuf_cnt = 0) /\ (~late => Steps)
  BY <1>1 DEF Adding
<1>9. (rcv_idx = 2 => rowbuf_cnt = 0)'
  BY <1>1, <1>3, <1>8
<1>10. end => rcv_idx' = 0 /\ state' = "IDLE"
  BY <1>2, <1>3, <1>8
<1> HIDE DEF rsp, cmd, end
<1>11. ASSUME ~late', ~end PROVE Steps'
  <2>1. ~late /\ Steps
    BY <1>11, <1>5, <1>8
  <2>2. CASE FirstAsked
    <3>1. Outstanding(0) /\ Asked(0) /\ pend = Word(0) /\ rowbuf_cnt = 0 /\ rcv_idx = 0
      BY <2>2 DEF FirstAsked, Outstanding, Asked
    <3>2. CASE rsp
      <4>1. Outstanding(0 + 1)' /\ rowbuf_cnt' = 1 /\ rcv_valid' /\ rcv_idx' = 0 /\ rcv_buf' = Word(0)'
        BY <3>1, <3>2, <1>3, <1>6, <1>7
      <4> QED BY <4>1 DEF FirstIn, Steps
    <3>3. CASE ~rsp
      <4>1. Asked(0)' /\ rowbuf_cnt' = 0 /\ ~rcv_valid' /\ rcv_idx' = 0
        BY <3>1, <3>3, <1>3, <1>6, <1>11
      <4> QED BY <4>1 DEF FirstAsked, Steps
    <3> QED BY <3>2, <3>3
  <2>3. CASE FirstIn \/ FirstDone
    <3>1. Outstanding(1) /\ rowbuf_cnt = 1 /\ rcv_idx = 0
      BY <2>3 DEF FirstIn, FirstDone
    <3>2. acc' = <<Word(0)'>>
      BY <2>3, <1>4, <1>7 DEF FirstIn, FirstDone
    <3>3. CASE rsp
      <4>1. Outstanding(1 + 1)' /\ rowbuf_cnt' = 2 /\ rcv_valid' /\ rcv_idx' = 1 /\ rcv_buf' = Word(1)'
        BY <3>1, <3>3, <1>3, <1>6, <1>7 DEF Asked
      <4> QED BY <4>1, <3>2 DEF SecondIn, Steps
    <3>4. CASE ~rsp
      <4>1. Outstanding(1)' /\ rowbuf_cnt' = 1 /\ ~rcv_valid' /\ rcv_idx' = 0
        BY <3>1, <3>4, <1>3, <1>6, <1>11
      <4> QED BY <4>1, <3>2 DEF FirstDone, Steps
    <3> QED BY <3>3, <3>4
  <2>4. CASE SecondIn
    <3>1. /\ Outstanding(2) /\ rowbuf_cnt = 2 /\ rcv_valid /\ rcv_idx = 1 /\ rcv_buf = Word(1)
          /\ acc = <<Word(0)>>
      BY <2>4 DEF SecondIn
    <3>2. rsp /\ ~cmd
      BY <3>1, <1>2, <1>5, <1>11 DEF acc_flg
    <3>3. pend' = None /\ rowbuf_cnt' = 0 /\ rcv_valid' /\ rcv_idx' = 2 /\ rcv_buf' = Word(2)'
      BY <3>1, <3>2, <1>3, <1>6, <1>7 DEF Asked
    <3>4. acc' = <<Word(0)', Word(1)'>>
      <4>1. acc' = Append(<<Word(0)>>, Word(1))
        BY <3>1, <1>4
      <4> QED BY <4>1, <1>7, AppendTuple
    <3> QED BY <3>3, <3>4 DEF LastIn, Steps
  <2>5. CASE LastIn
    <3>1. /\ pend = None /\ rowbuf_cnt = 0 /\ rcv_valid /\ rcv_idx = 2 /\ rcv_buf = Word(2)
          /\ acc = <<Word(0), Word(1)>>
      BY <2>5 DEF LastIn
    <3>2. ~rsp /\ ~cmd
      BY <3>1, <1>2, <1>5 DEF acc_flg
    <3>3. pend' = None /\ rowbuf_cnt' = 0 /\ ~rcv_valid' /\ rcv_idx' = 2
      BY <3>1, <3>2, <1>3, <1>11
    <3>4. acc' = <<Word(0)', Word(1)', Word(2)'>>
      <4>1. acc' = Append(<<Word(0), Word(1)>>, Word(2))
        BY <3>1, <1>4
      <4>2. acc' = <<Word(0), Word(1), Word(2)>>
        BY <4>1, AppendTuple, Zenon
      <4> QED BY <4>2, <1>7
    <3> QED BY <3>3, <3>4 DEF Added, Steps
  <2>6. CASE Added
    <3>1. /\ pend = None /\ rowbuf_cnt = 0 /\ ~rcv_valid /\ rcv_idx = 2
          /\ acc = <<Word(0), Word(1), Word(2)>>
      BY <2>6 DEF Added
    <3>2. ~rsp /\ ~cmd
      BY <3>1, <1>2, <1>5
    <3>3. pend' = None /\ rowbuf_cnt' = 0 /\ ~rcv_valid' /\ rcv_idx' = 2
      BY <3>1, <3>2, <1>3, <1>11
    <3>4. acc' = <<Word(0)', Word(1)', Word(2)'>>
      BY <3>1, <1>4, <1>7
    <3> QED BY <3>3, <3>4 DEF Added, Steps
  <2> QED BY <2>1, <2>2, <2>3, <2>4, <2>5, <2>6 DEF Steps
<1>12. ASSUME ~late, end PROVE Adds(acc) /\ pend = None /\ rowbuf_cnt = 0
  <2>1. Added
    BY <1>2, <1>8, <1>12 DEF Steps, FirstAsked, FirstIn, FirstDone, SecondIn, LastIn, Added
  <2>2. acc = <<<<ops, 0>>, <<ops, 1>>, <<ops, 2>>>>
    BY <2>1 DEF Added, Word
  <2>3. \A i \in 1 .. 3 : Words(ops)[i - 1] = <<ops, i - 1>>
    BY DEF Words, clonum
  <2>4. [i \in 1 .. 3 |-> <<ops, i - 1>>] = <<<<ops, 0>>, <<ops, 1>>, <<ops, 2>>>>
    OBVIOUS
  <2> QED BY <2>1, <2>2, <2>3, <2>4 DEF Adds, Added, clonum
<1>13. CASE end
  <2>1. SbufAtRest' /\ rcv_idx' = 0 /\ state' = "IDLE"
    BY <1>3, <1>10, <1>13
  <2>2. ~late' => pend' = None /\ rowbuf_cnt' = 0
    BY <1>2, <1>3, <1>5, <1>12, <1>13
  <2>3. Idle'
    BY <2>1, <2>2 DEF Idle, RowsumAtRest
  <2> QED BY <2>1, <2>3, <1>1, <1>12, <1>13, TypedStep DEF IInv
<1>14. CASE ~end
  <2>1. state' = "ROWSUM"
    BY <1>3, <1>14
  <2>2. Adding'
    BY <1>3, <1>9, <1>11, <1>14 DEF Adding
  <2> QED BY <2>1, <2>2, <1>1, TypedStep DEF IInv
<1> QED BY <1>13, <1>14

-----------------------------------------------------------------------------
(* The behaviours.                                                         *)

LEMMA StutterStep ==
  ASSUME IInv, UNCHANGED vars
  PROVE  IInv'
BY DEF IInv, Typed, TypeOK, Idle, Loading, Storing, Adding, Steps, FirstAsked, FirstIn, FirstDone,
       SecondIn, LastIn, Added, Outstanding, Asked, Refused, StoredUpTo, written, Word,
       SbufAtRest, RowsumAtRest, vars, lsuVars, rowsumVars, historyVars

\* What each step does, once the invariant is known.
LEMMA StepHolds ==
  ASSUME IInv, [Next]_vars
  PROVE  /\ IInv'
         /\ state = "LBUF" /\ state' = "IDLE" =>
              \A i \in 0 .. clonum : rowbuf'[i] = <<Words(ops)[i]>>
         /\ state = "SBUF" /\ state' = "IDLE" =>
              stored' = [i \in 1 .. clonum + 1 |->
                           [at |-> Words(ops)[i - 1], data |-> row[i - 1]]]
         /\ ~late /\ state = "ROWSUM" /\ state' = "IDLE" => Adds(acc)
<1>1. CASE UNCHANGED vars
  BY <1>1, StutterStep DEF vars
<1>2. CASE Next
  <2>1. PICK in \in Inputs : Cycle(in)
    BY <1>2 DEF Next
  <2>2. state \in {"IDLE", "LBUF", "SBUF", "ROWSUM"}
    BY DEF IInv, Typed, TypeOK
  <2>3. CASE state = "IDLE"
    BY <2>1, <2>3, IdleStep, RequestStep
  <2>4. CASE state = "LBUF"
    BY <2>1, <2>4, LbufStep
  <2>5. CASE state = "SBUF"
    BY <2>1, <2>5, SbufStep
  <2>6. CASE state = "ROWSUM"
    BY <2>1, <2>6, RowsumStep
  <2> QED BY <2>2, <2>3, <2>4, <2>5, <2>6
<1> QED BY <1>1, <1>2

LEMMA Invariant == Spec => []IInv
<1>1. IInv /\ [Next]_vars => IInv'
  BY StepHolds
<1> QED BY InitHolds, <1>1, PTL DEF Spec

\* Every counter stays within its three words and every register within its
\* width, however the operations follow one another and the bus behaves.
THEOREM NiceTypeCorrect == Spec => []TypeOK
<1>1. IInv => TypeOK
  BY DEF IInv, Typed
<1> QED BY Invariant, <1>1, PTL

\* On no bus does a command outlive its operation, but for the read behind a
\* rowsum's third word that came late.
THEOREM NoCommandLeft == Spec => []NoStaleCommand
<1>1. IInv => NoStaleCommand
  BY DEF IInv, Idle, NoStaleCommand
<1> QED BY Invariant, <1>1, PTL

\* lbuf ends with its three words in the row buffer, whatever ran before it and
\* however the bus refuses and delays them.
THEOREM LoadsItsWords == Spec => LbufLoads
<1>1. IInv /\ [Next]_vars =>
        [state = "LBUF" /\ state' = "IDLE" =>
           \A i \in 0 .. clonum : rowbuf'[i] = <<Words(ops)[i]>>]_vars
  BY StepHolds
<1> QED BY Invariant, <1>1, PTL DEF Spec, LbufLoads

\* sbuf has written, when it ends, the row that the core found when it asked.
THEOREM StoresTheRow == Spec => SbufStores
<1>1. IInv /\ [Next]_vars =>
        [state = "SBUF" /\ state' = "IDLE" =>
           stored' = [i \in 1 .. clonum + 1 |->
                        [at |-> Words(ops)[i - 1], data |-> row[i - 1]]]]_vars
  BY StepHolds
<1> QED BY Invariant, <1>1, PTL DEF Spec, SbufStores

\* A row sum that misses a word or counts one twice has a cause: a third word that
\* came late, in this rowsum or in one before it.  The other delays, and a bus
\* that refuses commands, never spoil a sum.
THEOREM AddsTheRow == Spec => PromptRowsumAdds
<1>1. IInv /\ [Next]_vars => [~late /\ state = "ROWSUM" /\ state' = "IDLE" => Adds(acc)]_vars
  BY StepHolds
<1> QED BY Invariant, <1>1, PTL DEF Spec, PromptRowsumAdds

=============================================================================
