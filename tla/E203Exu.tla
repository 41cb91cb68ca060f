------------------------------- MODULE E203Exu -------------------------------
(***************************************************************************)
(* The second stage of the E203 core: dispatch (e203_exu_disp), the        *)
(* outstanding-instruction FIFO (e203_exu_oitf), the AGU's AMO state       *)
(* machine, the LSU's one-entry outstanding stage, the NICE co-unit port,  *)
(* the long-pipe write-back, and commit with traps and WFI                 *)
(* (e203_exu_excp).  A step is one clock edge; "in" is what the bus, the   *)
(* co-unit, the fetch unit and the interrupt lines do in that cycle, and   *)
(* the wires of the RTL are operators of the same names.  The debug mode   *)
(* is off.                                                                 *)
(***************************************************************************)
EXTENDS Integers, Sequences, FiniteSets

CONSTANTS
  Reg,          \* the registers other than x0
  NoReg,        \* "not enabled": x0, or no such operand
  Instr,        \* the instructions the fetch unit may deliver
  NoIns,        \* an empty stage
  OITF_DEPTH,   \* E203_OITF_DEPTH
  BusErr        \* the error flags a bus response may carry

\* BJP: a mispredicted branch or an mret.  ECALL: any instruction that the
\* decoder or the ALU makes trap.  LBUF: lbuf and sbuf of the co-unit.  NICE_BAD:
\* a custom encoding that the co-unit does not implement.
Kinds == {"ALU", "CSR", "FENCE", "FENCEI", "WFI", "BJP", "ECALL", "LOAD", "STORE",
          "AMO", "LBUF", "ROWSUM", "NICE_BAD"}
InstrRecord == [kind : Kinds, rs1 : Reg \cup {NoReg}, rs2 : Reg \cup {NoReg},
                rd : Reg \cup {NoReg}]

ASSUME ExuAssumption ==
  /\ OITF_DEPTH \in Nat \ {0} /\ NoReg \notin Reg /\ BusErr \subseteq BOOLEAN
  /\ Instr \subseteq InstrRecord /\ NoIns \notin InstrRecord

VARIABLES
  ir,         \* the instruction in the IR stage, NoIns when ir_valid_r is low
  alc, ret,   \* alc_ptr and ret_ptr with their wrap flags, modulo 2 * OITF_DEPTH
  vld,        \* vld_r of each OITF entry
  oitf,       \* rdidx_r, rdwen_r and pc_r of each entry: the instruction they describe
  lsu,        \* the LSU's outstanding command: who sent it, its itag, its instruction
  amo,        \* icb_state_r of the AGU
  amo_err,    \* leftover_err_r
  nice,       \* the instruction the co-unit works on, NoIns when it is idle
  nfifo,      \* the itag FIFO of e203_exu_nice
  wfi_req,    \* wfi_halt_req_r
  wfi_flag,   \* wfi_flag_r: the core sleeps
  halt_ack,   \* halt_ack_r of the fetch unit
  mie         \* status_mie_r

oitfVars == <<alc, ret, vld, oitf>>
niceVars == <<nice, nfifo>>
wfiVars  == <<wfi_req, wfi_flag, halt_ack>>
vars     == <<ir, oitfVars, lsu, amo, amo_err, niceVars, wfiVars, mie>>

\* rdy: every bus target takes a command; rsp, err: the outstanding command is
\* answered, with an error; pcv: the next pc is known; ncmd, nrsp: what the busy
\* co-unit does, a command or its answer.
Inputs == { in \in [rdy : BOOLEAN, rsp : BOOLEAN, err : BusErr, irq : BOOLEAN,
                    pcv : BOOLEAN, ncmd : BOOLEAN, nrsp : BOOLEAN] :
              (in.err => in.rsp) /\ ~(in.ncmd /\ in.nrsp) }

Slots      == 0 .. OITF_DEPTH - 1
Ptr(p)     == p % OITF_DEPTH
Inc_no_wrap(p) == p + 1     \* mutant
Inc(p)     == (p + 1) % (2 * OITF_DEPTH)
NoCmd      == [src |-> "none", itag |-> 0, ins |-> NoIns]
LoadStores == {"LOAD", "STORE"}
NiceOps    == {"LBUF", "ROWSUM"}
NiceKinds  == NiceOps \cup {"NICE_BAD"}
AguKinds   == LoadStores \cup {"AMO"}
kind       == IF ir = NoIns THEN "NONE" ELSE ir.kind
-----------------------------------------------------------------------------
(* The OITF and the dispatch conditions.                                   *)

oitf_empty == ret = alc
oitf_full  == Ptr(ret) = Ptr(alc) /\ ret # alc

oitfrd_match(r) == r # NoReg /\ \E k \in Slots : vld[k] /\ oitf[k].rd = r
dep_no_waw == oitfrd_match(ir.rs1) \/ oitfrd_match(ir.rs2)     \* mutant
dep == oitfrd_match(ir.rs1) \/ oitfrd_match(ir.rs2) \/ oitfrd_match(ir.rd)

amo_wait == amo # "IDLE"

disp_condition ==
  /\ kind \in {"CSR", "FENCE", "FENCEI"} => oitf_empty
  /\ ~wfi_req
  /\ ~dep
  /\ kind \in AguKinds => ~oitf_full

i_valid    == ir # NoIns /\ disp_condition
i_longpipe == kind \in LoadStores \cup NiceKinds
-----------------------------------------------------------------------------
(* The answers of the long pipes, and their write-back.                    *)

wbck_ready4lsu   == lsu.itag = Ptr(ret) /\ ~oitf_empty
wbck_sel_lsu(in) == in.rsp /\ lsu.src = "agu" /\ wbck_ready4lsu

\* A load or store waits for the write-back; the AGU and the co-unit do not.
rsp_hsked(in) == in.rsp /\ lsu.src # "none" /\ (lsu.src = "agu" => wbck_ready4lsu)

\* LBUF answers with its last memory response, ROWSUM one accumulation later.
nice_rsp_valid(in) ==
  /\ in.nrsp /\ nice # NoIns
  /\ nice.kind = "LBUF" => lsu.src = "nice" /\ in.rsp
wbck_sel_nice(in) ==
  nice_rsp_valid(in) /\ nfifo # <<>> /\ Head(nfifo) = Ptr(ret) /\ ~oitf_empty

oitf_ret_ena(in)     == wbck_sel_lsu(in) \/ wbck_sel_nice(in)
longp_need_flush(in) == wbck_sel_lsu(in) /\ in.err
longp_wbck_valid(in) ==
  oitf_ret_ena(in) /\ oitf[Ptr(ret)].rd # NoReg /\ ~longp_need_flush(in)
-----------------------------------------------------------------------------
(* Commit: what the instruction in IR may do in this cycle.                *)

irq_req_in_amo(in) == in.irq /\ mie     \* mutant
irq_req(in) == in.irq /\ mie /\ ~amo_wait

amo_buserr     == kind = "AMO" /\ amo_err
alu_need_flush == kind = "ECALL" \/ amo_buserr

cmt_ready(in) ==
  ~irq_req(in) /\ ~longp_need_flush(in) /\ (alu_need_flush => oitf_empty)

o_need_wbck   == ir.rd # NoReg /\ ~i_longpipe /\ ~amo_buserr
wbck_free(in) == o_need_wbck => ~longp_wbck_valid(in)
o_ready(in)   == cmt_ready(in) /\ wbck_free(in)
-----------------------------------------------------------------------------
(* The co-unit's request, and the arbitration of the LSU's command port.   *)

lsu_cmd_ready_unbounded(in) == in.rdy     \* mutant
lsu_cmd_ready(in) == in.rdy /\ (lsu.src = "none" \/ rsp_hsked(in))

nice_req_valid_stable(in) == i_valid /\ kind \in NiceKinds     \* mutant
nice_req_valid(in) == i_valid /\ kind \in NiceKinds /\ o_ready(in)
nice_icb_cmd_valid(in) ==
  \/ nice = NoIns /\ nice_req_valid(in) /\ kind \in NiceOps
  \/ nice # NoIns /\ in.ncmd
nice_req_ready(in) == nice = NoIns /\ (kind \in NiceOps => lsu_cmd_ready(in))
nice_mem_holdup    == nice # NoIns

agu_icb_cmd_valid(in) ==
  \/ kind \in LoadStores /\ i_valid /\ o_ready(in)
  \/ kind = "AMO" /\ amo = "IDLE" /\ i_valid /\ o_ready(in)
  \/ kind = "AMO" /\ amo = "WAIT2ND"
agu_icb_cmd_ready(in) ==
  ~nice_mem_holdup /\ ~nice_icb_cmd_valid(in) /\ lsu_cmd_ready(in)
agu_icb_cmd_hsked(in) == agu_icb_cmd_valid(in) /\ agu_icb_cmd_ready(in)

o_valid(in) ==
  CASE kind \in LoadStores -> i_valid /\ agu_icb_cmd_ready(in)
    [] kind \in NiceKinds  -> i_valid /\ nice_req_ready(in)
    [] kind = "AMO"        -> amo = "WBCK"
    [] OTHER               -> i_valid
cmt_valid(in) == o_valid(in) /\ wbck_free(in)
cmt_ena(in)   == cmt_valid(in) /\ cmt_ready(in)
-----------------------------------------------------------------------------
(* Flushes and traps.                                                      *)

irq_flush_req(in) ==
  irq_req(in) /\ oitf_empty /\ (ir # NoIns \/ in.pcv) /\ ~longp_need_flush(in)
alu_excp_flush_req(in) ==
  cmt_valid(in) /\ alu_need_flush /\ oitf_empty /\ ~irq_req(in) /\ ~longp_need_flush(in)
brchmis_flush_req(in) ==
  cmt_valid(in) /\ kind \in {"BJP", "FENCEI"} /\ ~irq_req(in) /\ ~longp_need_flush(in)

excpirq_flush_req(in) == longp_need_flush(in) \/ irq_flush_req(in) \/ alu_excp_flush_req(in)
pipe_flush_req(in)    == excpirq_flush_req(in) \/ brchmis_flush_req(in)

dispatched_amo_early(in) ==     \* mutant
  /\ i_valid /\ o_ready(in)
  /\ kind \in AguKinds => agu_icb_cmd_ready(in)
  /\ kind \in NiceKinds => nice_req_ready(in)

\* The instruction leaves IR for its unit.
dispatched(in) ==
  i_valid /\ CASE kind = "AMO"         -> amo = "WBCK" /\ (o_ready(in) \/ pipe_flush_req(in))
               [] kind \in LoadStores  -> agu_icb_cmd_ready(in) /\ o_ready(in)
               [] kind \in NiceKinds   -> nice_req_ready(in) /\ o_ready(in)
               [] OTHER                -> o_ready(in)
disp_oitf_ena(in) == dispatched(in) /\ i_longpipe

wfi_halt_ifu_req(in) == wfi_req /\ ~in.irq
wfi_halt_exu_ack_any_oitf == ~amo_wait     \* mutant
wfi_halt_exu_ack     == oitf_empty /\ ~amo_wait
-----------------------------------------------------------------------------
(* The clocked blocks.                                                     *)

U_OITF(in) ==
  /\ alc' = IF disp_oitf_ena(in) THEN Inc(alc) ELSE alc
  /\ ret' = IF oitf_ret_ena(in) THEN Inc(ret) ELSE ret
  /\ vld' = [k \in Slots |->
               \/ disp_oitf_ena(in) /\ k = Ptr(alc)
               \/ vld[k] /\ ~(oitf_ret_ena(in) /\ k = Ptr(ret))]
  /\ oitf' = IF disp_oitf_ena(in) THEN [oitf EXCEPT ![Ptr(alc)] = ir] ELSE oitf

U_LSU(in) ==
  lsu' = CASE nice_icb_cmd_valid(in) /\ lsu_cmd_ready(in) ->
                [src |-> "nice", itag |-> 0, ins |-> NoIns]
           [] agu_icb_cmd_hsked(in) /\ kind = "AMO" ->
                [src |-> "amo", itag |-> 0, ins |-> NoIns]
           [] agu_icb_cmd_hsked(in) /\ kind # "AMO" ->
                [src |-> "agu", itag |-> Ptr(alc), ins |-> ir]
           [] OTHER -> IF rsp_hsked(in) THEN NoCmd ELSE lsu

state_idle_exit_ena(in) ==
  /\ amo = "IDLE" /\ kind = "AMO" /\ oitf_empty
  /\ agu_icb_cmd_hsked(in) /\ ~pipe_flush_req(in)

amo_rsp_hsked(in) == in.rsp /\ lsu.src = "amo"

\* The state after a state that the conditions of the RTL let it leave.
amo_nxt(in) ==
  CASE amo = "IDLE"    -> IF state_idle_exit_ena(in) THEN "1ST" ELSE "IDLE"
    [] amo = "1ST"     -> IF amo_rsp_hsked(in) THEN "AMOALU" ELSE "1ST"
    [] amo = "AMOALU"  -> "AMORDY"
    [] amo = "AMORDY"  -> "WAIT2ND"
    [] amo = "WAIT2ND" -> IF agu_icb_cmd_ready(in) THEN "2ND" ELSE "WAIT2ND"
    [] amo = "2ND"     -> IF amo_rsp_hsked(in) THEN "WBCK" ELSE "2ND"
    [] amo = "WBCK"    -> IF o_ready(in) THEN "IDLE" ELSE "WBCK"

U_AGU(in) ==
  /\ amo' = IF pipe_flush_req(in) THEN "IDLE" ELSE amo_nxt(in)
  /\ amo_err' = IF amo_rsp_hsked(in) /\ amo \in {"1ST", "2ND"}
                THEN in.err \/ (amo = "2ND" /\ amo_err)
                ELSE amo_err

\* The demo co-unit takes an encoding it does not support and stays idle; LBUF
\* returns to IDLE with its last memory response whether or not the core takes
\* the answer, ROWSUM waits for the core.
nice_done(in) == wbck_sel_nice(in) \/ (nice_rsp_valid(in) /\ nice.kind = "LBUF")
U_NICE(in) ==
  LET taken  == nice_req_valid(in) /\ nice_req_ready(in)
      popped == IF wbck_sel_nice(in) THEN Tail(nfifo) ELSE nfifo
  IN  /\ nice' = IF taken /\ kind # "NICE_BAD" THEN ir
                 ELSE IF nice_done(in) THEN NoIns ELSE nice
      /\ nfifo' = IF taken /\ Len(nfifo) < 4 THEN Append(popped, Ptr(alc)) ELSE popped

U_IR(in) ==
  ir' \in IF pipe_flush_req(in) THEN {NoIns}
          ELSE IF ir = NoIns \/ dispatched(in) THEN Instr \cup {NoIns} ELSE {ir}

wfi_clr_masked(in) == irq_req(in)     \* mutant
wfi_clr(in) == in.irq

U_WFI(in) ==
  LET req_set  == kind = "WFI" /\ cmt_ena(in)
      flag_set == wfi_halt_ifu_req(in) /\ halt_ack /\ wfi_halt_exu_ack
  IN  /\ wfi_req'  = ((wfi_req \/ req_set) /\ ~wfi_clr(in))
      /\ wfi_flag' = ((wfi_flag \/ flag_set) /\ ~wfi_clr(in))
      /\ halt_ack' \in IF ~wfi_halt_ifu_req(in) THEN {FALSE}
                       ELSE IF halt_ack THEN {TRUE} ELSE BOOLEAN

\* A trap clears MIE; a CSR write or an mret leaves it either way.
U_MIE(in) ==
  mie' \in IF excpirq_flush_req(in) THEN {FALSE}
           ELSE IF cmt_ena(in) /\ kind \in {"CSR", "BJP"} THEN BOOLEAN ELSE {mie}

Cycle(in) ==
  U_OITF(in) /\ U_LSU(in) /\ U_AGU(in) /\ U_NICE(in) /\ U_IR(in) /\ U_WFI(in) /\ U_MIE(in)

Init ==
  /\ ir = NoIns /\ alc = 0 /\ ret = 0
  /\ vld = [k \in Slots |-> FALSE] /\ oitf = [k \in Slots |-> NoIns]
  /\ lsu = NoCmd /\ amo = "IDLE" /\ amo_err = FALSE
  /\ nice = NoIns /\ nfifo = <<>>
  /\ wfi_req = FALSE /\ wfi_flag = FALSE /\ halt_ack = FALSE /\ mie = FALSE

Next == \E in \in Inputs : Cycle(in)

Spec == Init /\ [][Next]_vars

\* The bus accepts and answers again and again, and interrupts keep coming: what
\* the SoC around the core provides.
Answered(in) == in.rdy /\ in.rsp
FairSpec ==
  /\ Spec
  /\ WF_vars(\E in \in Inputs : Answered(in) /\ ~in.irq /\ Cycle(in))
  /\ WF_vars(\E in \in Inputs : Answered(in) /\ in.irq /\ Cycle(in))
-----------------------------------------------------------------------------
(* What the core promises.                                                 *)

Units == {"none", "agu", "amo", "nice"}

\* Every register holds a value of its width: the pointers wrap with their flags.
TypeOK ==
  /\ ir \in Instr \cup {NoIns} /\ nice \in Instr \cup {NoIns}
  /\ alc \in 0 .. 2 * OITF_DEPTH - 1 /\ ret \in 0 .. 2 * OITF_DEPTH - 1
  /\ vld \in [Slots -> BOOLEAN] /\ oitf \in [Slots -> Instr \cup {NoIns}]
  /\ lsu \in [src : Units, itag : Slots, ins : Instr \cup {NoIns}]
  /\ amo \in {"IDLE", "1ST", "AMOALU", "AMORDY", "WAIT2ND", "2ND", "WBCK"}
  /\ nfifo \in Seq(Slots) /\ Len(nfifo) <= 4
  /\ {amo_err, wfi_req, wfi_flag, halt_ack, mie} \subseteq BOOLEAN

Count   == (alc - ret) % (2 * OITF_DEPTH)
Window  == {Ptr(ret + i) : i \in 0 .. Count - 1}
InLSU   == IF lsu.src = "agu" THEN 1 ELSE 0

\* The OITF tracks exactly the instructions that the LSU and the co-unit hold:
\* the valid bits are the window between the pointers, each unit's itag names an
\* entry of its own that describes its instruction, and there are no others.
TrackInv ==
  /\ Count <= OITF_DEPTH
  /\ \A k \in Slots : vld[k] <=> k \in Window
  /\ Count = InLSU + Len(nfifo)
  /\ lsu.src = "agu" => vld[lsu.itag] /\ oitf[lsu.itag] = lsu.ins
  /\ nice # NoIns <=> nfifo # <<>>
  /\ nice # NoIns =>
       /\ vld[Head(nfifo)] /\ oitf[Head(nfifo)] = nice
       /\ lsu.src = "agu" => lsu.itag # Head(nfifo)

\* A dispatched instruction neither reads nor writes a register that a unit will
\* still write: what the OITF match is for, stated on the units themselves.
NoHazard ==
  i_valid =>
    \A p \in {lsu.ins, nice} \ {NoIns} :
      p.rd # NoReg => p.rd \notin {ir.rs1, ir.rs2, ir.rd}

\* The co-unit never loses an answer: when LBUF's last word arrives the write-back
\* takes it in that cycle, although LBUF does not wait for it.
AnswerNotLost ==
  \A in \in Inputs : nice_rsp_valid(in) /\ nice.kind = "LBUF" => wbck_sel_nice(in)

\* The core sleeps only when no instruction is outstanding in any unit.
SleepIsQuiet ==
  wfi_flag => Count = 0 /\ nice = NoIns /\ amo = "IDLE" /\ lsu.src # "agu"

\* While the AMO state machine runs, nothing else is outstanding and the AMO
\* stays in IR: its response cannot be another instruction's.
AmoRunsAlone ==
  amo_wait => oitf_empty /\ nice = NoIns /\ kind = "AMO" /\ lsu.src \in {"none", "amo"}

\* An AMO that has started reaches its write-back: no trap cuts it between its
\* read and its write.
AmoNotKilled == [][amo_wait /\ amo # "WBCK" => amo' # "IDLE"]_vars

\* The instruction that a long-pipe error or an interrupt overrides has no
\* effect in that cycle: no memory command, no co-unit request, no commit.
OverriddenHasNoEffect ==
  \A in \in Inputs :
    longp_need_flush(in) \/ irq_flush_req(in) =>
      ~agu_icb_cmd_hsked(in) /\ ~(nice_req_valid(in) /\ nice_req_ready(in)) /\ ~cmt_ena(in)

\* CHECK_1HOT_FLUSH_HALT of e203_exu_commit: the fetch unit is never asked to
\* halt and to flush in one cycle.
HaltFlushOneHot ==
  \A in \in Inputs : ~(wfi_halt_ifu_req(in) /\ pipe_flush_req(in))

\* The stage is never blocked for good: again and again the instruction in IR
\* can leave, or there is none.
NeverStuck ==
  []<>(ir = NoIns \/ \E in \in Inputs : dispatched(in) \/ pipe_flush_req(in))

\* core.rst: a new NICE request is stalled until the current one has completed.
OneNiceAtATime == Len(nfifo) <= 1

\* e203_exu_alu_lsuagu: the AMO's read handshake starts its state machine, so
\* the read is made once.
AmoReadOnce ==
  [][kind = "AMO" /\ amo = "IDLE" /\ lsu'.src = "amo" => amo' = "1ST"]_vars
=============================================================================
