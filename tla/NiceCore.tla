------------------------------- MODULE NiceCore -------------------------------
(***************************************************************************)
(* The demo NICE co-unit (e203_subsys_nice_core) and the one-entry LSU     *)
(* stage that serves its memory port.  lbuf fills the row buffer, sbuf     *)
(* stores it, rowsum adds up a row and adds its words to the row buffer.   *)
(* A step is one clock edge.  A word of memory is a pair <<n, k>>: the     *)
(* word at offset k of the n-th operation's address; a register that adds  *)
(* words holds the sequence of the words added.                            *)
(***************************************************************************)
EXTENDS Integers, Sequences

CONSTANTS
  Ops,      \* the operations the core may request
  Ready,    \* may the bus refuse a command: the values of cmd_ready
  Slow,     \* the states in which an answer may take longer than a cycle
  MaxOps,   \* bound on the operations of a behaviour
  MaxWords  \* bound on the words the bus takes of one operation

ASSUME NiceAssumption ==
  /\ Ops \subseteq {"LBUF", "SBUF", "ROWSUM"} /\ MaxOps \in Nat /\ MaxWords \in Nat
  /\ TRUE \in Ready /\ Ready \subseteq BOOLEAN /\ Slow \subseteq Ops \cup {"IDLE"}

VARIABLES
  state,      \* state_r
  maddr,      \* maddr_acc_r: the next word to read or write
  lbuf_cnt, sbuf_cnt, sbuf_cmd_cnt, rowbuf_cnt,   \* the _r counters
  rcv_valid, rcv_idx, rcv_buf,                    \* rcv_data_buf_valid, _idx and the buffer
  acc,        \* rowsum_acc_r
  rowbuf,     \* rowbuf_r
  pend        \* the command the LSU has outstanding

\* History, for the properties alone.
VARIABLES
  ops,        \* operations taken: the current one's number
  row,        \* the row buffer when the current operation was requested
  stored,     \* the writes of the current operation
  late,       \* a rowsum's third word did not come right behind its second one
  cut         \* lbuf's or sbuf's last command was refused as the word before it was answered

lsuVars    == <<pend, maddr>>
rowsumVars == <<rowbuf_cnt, rcv_valid, rcv_idx, rcv_buf, acc>>
historyVars == <<ops, row, stored, late, cut>>
vars == <<state, lsuVars, lbuf_cnt, sbuf_cnt, sbuf_cmd_cnt, rowsumVars, rowbuf, historyVars>>

clonum == 2          \* the index of the last of the three words
Idx    == 0 .. 3     \* ROWBUF_IDX_W = 2
Next2(i) == (i + 1) % 4
None   == <<>>       \* no command outstanding
Junk   == <<-1, -1>> \* what the data bus carries besides a read's word

\* req: the core's request; rdy, rsp: the bus; ack: nice_rsp_ready.
Inputs ==
  { in \in [req : Ops \cup {"NONE"}, rdy : BOOLEAN, rsp : BOOLEAN, ack : BOOLEAN] :
      /\ in.rdy \in IF state = "IDLE" \/ maddr[2] < MaxWords THEN Ready ELSE {FALSE}
      /\ in.rsp \/ state \in Slow }
-----------------------------------------------------------------------------
icb_rsp_hsked(in) == in.rsp /\ pend # None
rdata(in) == IF icb_rsp_hsked(in) THEN pend ELSE Junk

cmd_valid_lbuf_le == state = "LBUF" /\ lbuf_cnt <= clonum     \* mutant
cmd_valid_lbuf == state = "LBUF" /\ lbuf_cnt < clonum
cmd_valid_sbuf_lt == state = "SBUF" /\ sbuf_cmd_cnt < clonum /\ sbuf_cnt # clonum     \* mutant
cmd_valid_sbuf == state = "SBUF" /\ sbuf_cmd_cnt <= clonum /\ sbuf_cnt # clonum

acc_set == rcv_valid /\ rcv_idx = 0
acc_flg == rcv_valid /\ rcv_idx # 0
cmd_valid_rowsum == state = "ROWSUM" /\ rcv_idx < clonum /\ ~acc_flg

new_req(in) == state = "IDLE" /\ in.req # "NONE" /\ ops < MaxOps
icb_cmd_valid(in) == new_req(in) \/ cmd_valid_lbuf \/ cmd_valid_sbuf \/ cmd_valid_rowsum
icb_cmd_hsked(in) == icb_cmd_valid(in) /\ in.rdy /\ (pend = None \/ icb_rsp_hsked(in))
req_hsked(in) == new_req(in) /\ icb_cmd_hsked(in)

lbuf_rsp(in)   == state = "LBUF" /\ icb_rsp_hsked(in)
sbuf_rsp(in)   == state = "SBUF" /\ icb_rsp_hsked(in)
rowbuf_rsp(in) == state = "ROWSUM" /\ icb_rsp_hsked(in)
rsp_valid_rowsum_early == state = "ROWSUM" /\ rcv_idx = clonum     \* mutant
rsp_valid_rowsum == state = "ROWSUM" /\ rcv_idx = clonum /\ ~acc_flg
rowsum_done(in)  == rsp_valid_rowsum /\ in.ack
sbuf_cmd(in) == icb_cmd_hsked(in) /\ (state = "SBUF" \/ (new_req(in) /\ in.req = "SBUF"))

\* The operation's last response, or the core's taking of the row sum.
done(in) ==
  \/ lbuf_rsp(in) /\ lbuf_cnt = clonum
  \/ sbuf_rsp(in) /\ sbuf_cnt = clonum
  \/ rowsum_done(in)
-----------------------------------------------------------------------------
FSM(in) ==
  /\ state' = IF req_hsked(in) THEN in.req ELSE IF done(in) THEN "IDLE" ELSE state
  /\ ops' = IF req_hsked(in) THEN ops + 1 ELSE ops
  /\ row' = IF req_hsked(in) THEN rowbuf ELSE row
  /\ late' = (late \/ (state = "ROWSUM" /\ rcv_valid /\ rcv_idx = 1 /\ ~icb_rsp_hsked(in)))
  /\ cut' = \/ cut
            \/ /\ state \in {"LBUF", "SBUF"} /\ icb_rsp_hsked(in)
               /\ icb_cmd_valid(in) /\ ~in.rdy /\ maddr[2] = clonum

\* The word of a new command: offset 0 of a new operation, else maddr.
cmd_word(in) == IF state = "IDLE" THEN <<ops + 1, 0>> ELSE maddr

Memory(in) ==
  /\ pend' = IF icb_cmd_hsked(in) THEN cmd_word(in)
             ELSE IF icb_rsp_hsked(in) THEN None ELSE pend
  /\ maddr' = IF icb_cmd_hsked(in) THEN <<cmd_word(in)[1], cmd_word(in)[2] + 1>> ELSE maddr
  /\ stored' = IF sbuf_cmd(in)
               THEN (IF state = "IDLE" THEN <<>> ELSE stored)
                    \o <<[at |-> cmd_word(in), data |-> rowbuf[sbuf_cmd_cnt]]>>
               ELSE stored

\* A counter of responses stops at clonum; lbuf's is cleared by a request, the
\* others by the last response.
LbufCnt_no_stop(in) ==     \* mutant
  lbuf_cnt' = IF req_hsked(in) /\ in.req = "LBUF" THEN 0
              ELSE IF lbuf_rsp(in) THEN Next2(lbuf_cnt) ELSE lbuf_cnt
LbufCnt_not_cleared(in) ==     \* mutant
  lbuf_cnt' = IF lbuf_rsp(in) /\ lbuf_cnt # clonum THEN Next2(lbuf_cnt) ELSE lbuf_cnt
LbufCnt(in) ==
  lbuf_cnt' = IF req_hsked(in) /\ in.req = "LBUF" THEN 0
              ELSE IF lbuf_rsp(in) /\ lbuf_cnt # clonum THEN Next2(lbuf_cnt) ELSE lbuf_cnt

SbufCnt_cmd_kept(in) ==     \* mutant
  /\ sbuf_cnt' = IF ~sbuf_rsp(in) THEN sbuf_cnt
                 ELSE IF sbuf_cnt = clonum THEN 0 ELSE Next2(sbuf_cnt)
  /\ sbuf_cmd_cnt' = IF sbuf_cmd(in) /\ sbuf_cmd_cnt # clonum
                     THEN Next2(sbuf_cmd_cnt) ELSE sbuf_cmd_cnt
SbufCnt(in) ==
  /\ sbuf_cnt' = IF ~sbuf_rsp(in) THEN sbuf_cnt
                 ELSE IF sbuf_cnt = clonum THEN 0 ELSE Next2(sbuf_cnt)
  /\ sbuf_cmd_cnt' = IF sbuf_rsp(in) /\ sbuf_cnt = clonum THEN 0
                     ELSE IF sbuf_cmd(in) /\ sbuf_cmd_cnt # clonum
                     THEN Next2(sbuf_cmd_cnt) ELSE sbuf_cmd_cnt

\* The receive buffer is loaded by a response, and by the row sum's end as well.
Rowsum(in) ==
  LET ena == rowbuf_rsp(in) \/ rowsum_done(in)
  IN  /\ rowbuf_cnt' = IF ~rowbuf_rsp(in) THEN rowbuf_cnt
                       ELSE IF rowbuf_cnt = clonum THEN 0 ELSE Next2(rowbuf_cnt)
      /\ rcv_valid' = ena
      /\ rcv_buf' = IF ena THEN rdata(in) ELSE rcv_buf
      /\ rcv_idx' = IF rowbuf_rsp(in) THEN rowbuf_cnt ELSE IF ena THEN 0 ELSE rcv_idx
      /\ acc' = CASE acc_set -> <<rcv_buf>>
                  [] acc_flg -> Append(acc, rcv_buf)
                  [] OTHER -> acc

RowBuf(in) ==
  rowbuf' = [i \in Idx |->
               IF lbuf_rsp(in) /\ i = lbuf_cnt THEN <<pend>>
               ELSE IF rcv_valid /\ ~lbuf_rsp(in) /\ i = rcv_idx THEN Append(rowbuf[i], rcv_buf)
               ELSE rowbuf[i]]

Cycle(in) ==
  FSM(in) /\ Memory(in) /\ LbufCnt(in) /\ SbufCnt(in) /\ Rowsum(in) /\ RowBuf(in)

Init ==
  /\ state = "IDLE" /\ maddr = Junk /\ pend = None /\ ops = 0 /\ stored = <<>> /\ late = FALSE
  /\ cut = FALSE
  /\ lbuf_cnt = 0 /\ sbuf_cnt = 0 /\ sbuf_cmd_cnt = 0
  /\ rowbuf_cnt = 0 /\ rcv_valid = FALSE /\ rcv_idx = 0 /\ rcv_buf = Junk
  /\ acc = <<>> /\ rowbuf = [i \in Idx |-> <<>>] /\ row = rowbuf

Next == \E in \in Inputs : Cycle(in)

Spec == Init /\ [][Next]_vars

\* The bus accepts and answers again and again, and the core takes the answer.
FairSpec ==
  /\ Spec
  /\ WF_vars(\E in \in Inputs : in.rdy /\ in.rsp /\ in.ack /\ Cycle(in))
-----------------------------------------------------------------------------
(* What an operation promises.                                             *)

Words(n) == [i \in 0 .. clonum |-> <<n, i>>]

\* Every register holds a value of its width, and no counter passes clonum.
TypeOK ==
  /\ state \in {"IDLE", "LBUF", "SBUF", "ROWSUM"} /\ ops \in 0 .. MaxOps
  /\ {lbuf_cnt, sbuf_cnt, sbuf_cmd_cnt, rowbuf_cnt, rcv_idx} \subseteq 0 .. clonum
  /\ rcv_valid \in BOOLEAN /\ pend \in {None} \cup ((1 .. MaxOps) \X Nat)
  /\ rowbuf \in [Idx -> Seq({Junk} \cup ((1 .. MaxOps) \X Nat))]

\* When lbuf ends, the row buffer holds its three words, each at its own index,
\* whatever the bus refuses and delays and whatever the operations before it left
\* behind (e203_subsys_nice_core.v:209-239 and 379-415).
LbufLoads ==
  [][state = "LBUF" /\ state' = "IDLE" =>
       \A i \in 0 .. clonum : rowbuf'[i] = <<Words(ops)[i]>>]_vars

\* When sbuf ends, it has written the three words that the row buffer held when
\* it was requested, in order, to consecutive addresses
\* (e203_subsys_nice_core.v:241-288 and 480-493).
SbufStores ==
  [][state = "SBUF" /\ state' = "IDLE" =>
       stored' = [i \in 1 .. clonum + 1 |-> [at |-> Words(ops)[i - 1], data |-> row[i - 1]]]]_vars

\* The row sum handed to the core is the sum of the row's three words as long as
\* no third word has come late: that is the only way to a wrong sum, whatever the
\* bus refuses and however long the other words take
\* (e203_subsys_nice_core.v:328-364).
Adds(sum) == sum = [i \in 1 .. clonum + 1 |-> Words(ops)[i - 1]]
PromptRowsumAdds == [][~late /\ state = "ROWSUM" /\ state' = "IDLE" => Adds(acc)]_vars

\* No command of an operation outlives it, for nobody would take its answer; the
\* read behind a third word that came late is the only one that can.
NoStaleCommand == state = "IDLE" /\ ~late => pend = None

\* Every operation ends, whatever the bus refuses and delays and whatever went
\* before, for the co-unit keeps asking for every word it waits for.  A last command
\* refused as the word before it is answered is the only one that it forgets: its
\* counter has then reached the last word (e203_subsys_nice_core.v:239 and 288).
\* A rowsum after a late word may read on beyond MaxWords and is left out.
OpCompletes ==
  state # "IDLE" ~> (state = "IDLE" \/ cut \/ (state = "ROWSUM" /\ late))
=============================================================================
