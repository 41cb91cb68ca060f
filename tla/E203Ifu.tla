------------------------------ MODULE E203Ifu ------------------------------
(***************************************************************************)
(* The fetch unit of the E203 core: ifetch (pc, IR stage, flush, halt and  *)
(* the static prediction of litebpu), ift2icb (the state machine that      *)
(* turns a fetch into one, two or no reads), and the ITCM behind it with   *)
(* its command buffer and the port it shares with load, store and external *)
(* accesses.  A step is one clock edge.                                    *)
(*                                                                         *)
(* Memory is a ring of 16-bit parcels: the ITCM with lanes of 64 bits, and *)
(* behind it the bus with lanes of 32.  An address counts parcels, and a   *)
(* fetched instruction is the pair of addresses its halves came from, so   *)
(* that wrong data shows whatever the program is.  prog says what starts   *)
(* at each address: its length in parcels, what it is for the mini-decoder *)
(* and its registers.  The execution stage is the environment: it accepts  *)
(* or delays, flushes (a load that ends with an error flushes it even in   *)
(* its sleep), sleeps in WFI, and writes the registers that jumps use, at  *)
(* once or by a load.  Bus errors of fetches, debug mode and the fusing of *)
(* mul and div are left out.                                               *)
(***************************************************************************)
EXTENDS Integers, Sequences

CONSTANT
    Programs         \* [code: what starts where, flush: where flushes go]

Itcm == 0..7
Parcels == 0..11
LaneSize(a) == IF a \in Itcm THEN 4 ELSE 2
Plus(a, n) == (a + n) % 12
Offset(a) == a % LaneSize(a)
Lane(a) == a - Offset(a)

None == -1
PC_RTVEC == 0

\* xn and xm are two of the registers of which a jump reads the register file.
Regs == {"x0", "x1", "xn", "xm"}
Instrs ==
    [len : {1, 2}, op : {"N", "J", "JR", "S", "L", "WFI"}, off : Int, rs1 : Regs, rd : Regs]
Plain == [len |-> 1, op |-> "N", off |-> 0, rs1 |-> "x0", rd |-> "x0"]

\* A jump through x0 is a jump to a constant, a "J" here.
ASSUME IfuAssumption ==
    \A p \in Programs :
       /\ p.flush \subseteq Parcels /\ DOMAIN p.code \subseteq Parcels
       /\ p.code \in [DOMAIN p.code -> Instrs]
       /\ \A a \in DOMAIN p.code : p.code[a].op = "JR" => p.code[a].rs1 # "x0"

VARIABLES
    prog,                                        \* the program in memory
    reset_flag, reset_req, halt_ack, dly_flush,  \* ifetch
    ir_valid, ir_pc_vld, ir, ifu_pc, rs1idx, rdrf, pc, out_flag, newpend,
    state, same_cross, uop2, uop0, cross,        \* ift2icb
    target, addr_2_1, leftover, rspbuf,
    cmdbuf, e1, ram, holdup,                     \* ITCM
    bus,                                         \* the bus: last lane read, and whether it is busy
    x, ld, wfi,                                  \* registers, load, WFI
    mie, irq                                     \* asleep with interrupts on; one is pending

\* History: the address the execution stage needs next, and whether the sleep
\* ended without a trap when the pc had no fetch under way.
VARIABLES npc, astray

ifetch == <<reset_flag, reset_req, halt_ack, dly_flush, ir_valid, ir_pc_vld, ir, ifu_pc,
            rs1idx, rdrf, pc, out_flag, newpend>>
ift2icb == <<state, same_cross, uop2, uop0, cross, target, addr_2_1, leftover, rspbuf>>
itcm == <<cmdbuf, e1, ram, holdup>>
exu == <<x, ld, wfi, mie, irq, npc, astray>>
vars == <<prog, ifetch, ift2icb, itcm, bus, exu>>

At(a) == IF a \in DOMAIN prog.code THEN prog.code[a] ELSE Plain
IrOp == At(ir[1])

-----------------------------------------------------------------------------
(* What the execution stage and the memories may do in a cycle.            *)

wfi_halt_ifu_req(in) == wfi /\ ~in.wake

\* An instruction leaves the IR stage if it does not wait for the load, and
\* nothing overrides it.
MayAccept ==
    /\ ir_valid /\ ~wfi /\ ~irq
    /\ ld # "x0" => IrOp.op # "L" /\ ld \notin {IrOp.rs1, IrOp.rd}

\* The arbiter of the load-store and the external port: one read at a time.
arbt_free(rdy) == ~(cmdbuf.src = "arbt") /\ (e1 = "arbt" => rdy)

\* The trap is taken once the address to return to is known.
Trap(wake) == (irq \/ (wake /\ mie)) /\ ir_pc_vld /\ ld = "x0"

\* A flush is of a load that ends with an error, which waits for nothing, of
\* an interrupt, or of the instruction in the IR stage.
Flushes(wake, done) ==
    IF Trap(wake) THEN prog.flush
    ELSE IF done \/ (~irq /\ ~wfi /\ (ir_valid \/ (ir_pc_vld /\ ld = "x0")))
    THEN prog.flush \cup {None} ELSE {None}

Bool(b) == IF b THEN BOOLEAN ELSE {FALSE}
BusUsed == \E a \in DOMAIN prog.code : a \notin Itcm

-----------------------------------------------------------------------------
(* ift2icb, the response.                                                  *)

\* Parcel k of the lane that was read.
rdata(k) ==
    CASE target = "itcm" -> ram + k
      [] target = "biu" -> bus.lane + k
      [] OTHER -> None
LastParcel == IF target = "itcm" THEN rdata(3) ELSE rdata(1)

ifu_icb_rsp_instr ==
    CASE target = "itcm" -> IF addr_2_1 = 3 THEN <<None, None>>
                            ELSE <<rdata(addr_2_1), rdata(addr_2_1 + 1)>>
      [] OTHER -> <<rdata(0), rdata(1)>>

ifu_icb_rsp_valid(in) == (target = "itcm" /\ e1 = "ifu") \/ (target = "biu" /\ in.rsp)
ifu_icb_rsp2leftover == uop2 /\ state = "1ST"
rsp_instr_sel_leftover == (state = "1ST" /\ same_cross) \/ state = "2ND"

i_ifu_rsp_instr ==
    IF rsp_instr_sel_leftover THEN <<leftover, rdata(0)>> ELSE ifu_icb_rsp_instr
i_ifu_rsp_valid(in) ==
    (state = "1ST" /\ uop0) \/ (~ifu_icb_rsp2leftover /\ ifu_icb_rsp_valid(in))
i_ifu_rsp_hsked(in) == i_ifu_rsp_valid(in) /\ rspbuf = <<>>
ifu_icb_rsp_ready == ifu_icb_rsp2leftover \/ rspbuf = <<>>
ifu_icb_rsp_hsked(in) == ifu_icb_rsp_valid(in) /\ ifu_icb_rsp_ready

\* Behind the bypass buffer.
ifu_rsp_instr == IF rspbuf = <<>> THEN i_ifu_rsp_instr ELSE rspbuf
ifu_rsp_valid(in) == rspbuf # <<>> \/ i_ifu_rsp_valid(in)

-----------------------------------------------------------------------------
(* ifetch: the prediction and the next pc.                                 *)

pipe_flush_req_real(in) == in.flush # None \/ dly_flush
ir_valid_clr(in) == ir_valid /\ (in.acc \/ in.flush # None)

Dec == At(ifu_rsp_instr[1])      \* the mini-decoder
OfX1 == Dec.op = "JR" /\ Dec.rs1 = "x1"
OfXn == Dec.op = "JR" /\ Dec.rs1 # "x1"

jalr_rs1x1_dep(in) ==
    ifu_rsp_valid(in) /\ OfX1 /\ (ld # "x0" \/ (ir_valid /\ IrOp.rd = "x1"))
jalr_rs1xn_dep(in) == ifu_rsp_valid(in) /\ OfXn /\ (ld # "x0" \/ ir_valid)
jalr_rs1xn_dep_ir_clr_any(in) == jalr_rs1xn_dep(in) /\ ld = "x0"   \* mutant
jalr_rs1xn_dep_ir_clr(in) ==
    jalr_rs1xn_dep(in) /\ ld = "x0" /\ ir_valid /\ (ir_valid_clr(in) \/ IrOp.rs1 = "x0")
rs1xn_rdrf_set(in) ==
    /\ ~rdrf /\ ifu_rsp_valid(in) /\ OfXn
    /\ jalr_rs1xn_dep(in) => jalr_rs1xn_dep_ir_clr(in)
bpu_wait(in) == jalr_rs1x1_dep(in) \/ jalr_rs1xn_dep(in) \/ rs1xn_rdrf_set(in)

bjp_req == Dec.op \in {"J", "JR"}
prdt_pc ==
    IF Dec.op = "J" THEN Plus(pc, Dec.off)
    ELSE IF OfX1 THEN x["x1"] ELSE x[rs1idx]

pc_nxt(in) ==
    CASE in.flush # None -> in.flush
      [] in.flush = None /\ dly_flush -> pc
      [] in.flush = None /\ ~dly_flush ->
            IF bjp_req THEN prdt_pc
            ELSE IF reset_req THEN PC_RTVEC ELSE Plus(pc, Dec.len)

ifu_req_seq(in) == ~pipe_flush_req_real(in) /\ ~reset_req /\ ~bjp_req
ifu_req_valid_pre(in) ==
    \/ ~bpu_wait(in) /\ ~wfi_halt_ifu_req(in) /\ ~reset_flag
    \/ reset_req
    \/ pipe_flush_req_real(in)

-----------------------------------------------------------------------------
(* ift2icb, the request; r is the pc requested.                            *)

ifu_req_lane_cross(r) == Offset(r) = LaneSize(r) - 1
ifu_req_lane_same(in, r) == ifu_req_seq(in) /\ (Offset(r) = 0 => cross)
ifu_req_lane_holdup_any(r) == r \in Itcm         \* mutant
ifu_req_lane_holdup(r) == r \in Itcm /\ holdup

req_same_cross_holdup(in, r) ==
    ifu_req_lane_same(in, r) /\ ifu_req_lane_cross(r) /\ ifu_req_lane_holdup(r)
req_need_2uop(in, r) == ifu_req_lane_cross(r) /\ ~req_same_cross_holdup(in, r)
req_need_0uop(in, r) ==
    ifu_req_lane_same(in, r) /\ ~ifu_req_lane_cross(r) /\ ifu_req_lane_holdup(r)

\* The next lane for the second read, or for the only one when the lane held
\* up has the first half; otherwise the pc itself.
ifu_icb_cmd_addr(in, r) ==
    IF uop2 /\ state \in {"1ST", "WAIT2ND"} THEN Plus(pc, 1)
    ELSE IF req_same_cross_holdup(in, r) THEN Plus(pc, 1 + Dec.len)
    ELSE r

ifu_req_ready_condi(in) ==
    \/ state = "IDLE"
    \/ ~uop2 /\ state = "1ST" /\ i_ifu_rsp_hsked(in)
    \/ uop2 /\ state = "2ND" /\ i_ifu_rsp_hsked(in)

\* The ITCM takes a fetch when nobody else accesses it.
ifu_icb_cmd_ready(in, r) ==
    IF ifu_icb_cmd_addr(in, r) \in Itcm THEN in.arb = None /\ cmdbuf.src = "none" ELSE in.go

ifu_req_ready(in, r) == ifu_icb_cmd_ready(in, r) /\ ifu_req_ready_condi(in)
ifu_rsp_ready(in, r) ==
    \/ pipe_flush_req_real(in)
    \/ (~ir_valid \/ ir_valid_clr(in)) /\ ifu_req_ready(in, r) /\ ~bpu_wait(in)
ifu_rsp_hsked(in, r) == ifu_rsp_valid(in) /\ ifu_rsp_ready(in, r)
ifu_req_valid_no_flag(in, r) == ifu_req_valid_pre(in)      \* mutant
ifu_req_valid(in, r) == ifu_req_valid_pre(in) /\ (~out_flag \/ ifu_rsp_hsked(in, r))
ifu_req_hsked(in, r) == ifu_req_valid(in, r) /\ ifu_req_ready(in, r)

ifu_icb_cmd_valid(in, r) ==
    \/ ifu_req_valid(in, r) /\ ifu_req_ready_condi(in) /\ ~req_need_0uop(in, r)
    \/ uop2 /\ ((state = "1ST" /\ ifu_icb_rsp_hsked(in)) \/ state = "WAIT2ND")

-----------------------------------------------------------------------------
(* The registers.  req and rsp: the handshakes of ifetch; r: pc_nxt; a:    *)
(* the address of the command, cmd: its handshake.                         *)

SetClr(q, set, clr) == set \/ (q /\ ~clr)

ifu_no_outs_any(in) == TRUE      \* mutant
ifu_no_outs(in) == ~out_flag \/ ifu_rsp_valid(in)

Ifetch(in, r, req, rsp) ==
    LET flush == in.flush # None
        ir_valid_set == rsp /\ ~pipe_flush_req_real(in)
        ir_pc_vld_set ==
            newpend /\ (~ir_valid \/ ir_valid_clr(in)) /\ ~pipe_flush_req_real(in)
        halt == wfi_halt_ifu_req(in)
    IN  /\ reset_flag' = FALSE
        /\ reset_req' = SetClr(reset_req, reset_flag /\ ~reset_req, req)
        /\ halt_ack' = SetClr(halt_ack, halt /\ ifu_no_outs(in), ~halt)
        /\ dly_flush' = SetClr(dly_flush, flush /\ ~req, req)
        /\ ir_valid' = SetClr(ir_valid, ir_valid_set, ir_valid_clr(in))
        /\ ir_pc_vld' = SetClr(ir_pc_vld, ir_pc_vld_set, ir_valid_clr(in))
        /\ ir' = IF ~ir_valid_set THEN ir
                 ELSE <<ifu_rsp_instr[1], IF Dec.len = 2 THEN ifu_rsp_instr[2] ELSE ir[2]>>
        /\ ifu_pc' = IF ir_pc_vld_set THEN pc ELSE ifu_pc
        /\ rs1idx' = IF (ir_valid_set /\ Dec.rs1 # "x0") \/ rs1xn_rdrf_set(in)
                     THEN Dec.rs1 ELSE rs1idx
        /\ rdrf' = rs1xn_rdrf_set(in)
        /\ pc' = IF req \/ flush THEN r ELSE pc
        /\ out_flag' = SetClr(out_flag, req, rsp)
        /\ newpend' = SetClr(newpend, req \/ flush, ir_pc_vld_set)

icb_state_nxt(in, r, req) ==
    CASE state = "IDLE" -> IF req THEN "1ST" ELSE "IDLE"
      [] state = "1ST" /\ uop2 ->
            IF ~ifu_icb_rsp_hsked(in) THEN "1ST"
            ELSE IF ifu_icb_cmd_ready(in, r) THEN "2ND" ELSE "WAIT2ND"
      [] state = "WAIT2ND" -> IF ifu_icb_cmd_ready(in, r) THEN "2ND" ELSE "WAIT2ND"
      [] OTHER -> IF ~i_ifu_rsp_hsked(in) THEN state ELSE IF req THEN "1ST" ELSE "IDLE"

Ift2icb(in, r, req, rsp, a, cmd) ==
    /\ state' = icb_state_nxt(in, r, req)
    /\ same_cross' = IF req THEN req_same_cross_holdup(in, r) ELSE same_cross
    /\ uop2' = IF req THEN req_need_2uop(in, r) ELSE uop2
    /\ uop0' = IF req THEN req_need_0uop(in, r) ELSE uop0
    /\ cross' = IF req THEN ifu_req_lane_cross(r) ELSE cross
    /\ target' = IF ~cmd THEN target ELSE IF a \in Itcm THEN "itcm" ELSE "biu"
    /\ addr_2_1' = IF cmd \/ req THEN a % 4 ELSE addr_2_1
    /\ leftover' = IF \/ req /\ req_same_cross_holdup(in, r)
                      \/ ifu_icb_rsp2leftover /\ ifu_icb_rsp_hsked(in)
                   THEN LastParcel ELSE leftover
    /\ rspbuf' = IF rspbuf # <<>> THEN (IF rsp THEN <<>> ELSE rspbuf)
                 ELSE IF i_ifu_rsp_valid(in) /\ ~ifu_rsp_ready(in, r) THEN i_ifu_rsp_instr
                 ELSE <<>>

\* sram: the fetch's command reaches the arbitration in front of the buffer.
NoCmd == [src |-> "none", lane |-> 0]

ItcmCtrl(in, a, sram) ==
    LET i_cmd == IF in.arb # None THEN [src |-> "arbt", lane |-> in.arb]
                 ELSE IF sram THEN [src |-> "ifu", lane |-> Lane(a)] ELSE NoCmd
        byp == IF cmdbuf # NoCmd THEN cmdbuf ELSE i_cmd
        e1_ready == CASE e1 = "none" -> TRUE
                      [] e1 = "ifu" -> ifu_icb_rsp_ready
                      [] e1 = "arbt" -> in.rdy
        ram_cs == byp # NoCmd /\ e1_ready
        ifu_holdup_set == in.arb = None /\ sram
    IN  /\ cmdbuf' = IF ram_cs THEN NoCmd ELSE byp
        /\ e1' = IF ram_cs THEN byp.src ELSE IF e1_ready THEN "none" ELSE e1
        /\ ram' = IF ram_cs THEN byp.lane ELSE ram
        /\ holdup' = IF ram_cs THEN ifu_holdup_set ELSE holdup

\* The bus answers a read of the fetch unit after any delay.
Bus(in, a, cmd) ==
    bus' = IF cmd /\ a \notin Itcm THEN [lane |-> Lane(a), busy |-> TRUE]
           ELSE [bus EXCEPT !.busy = @ /\ ~(in.rsp /\ ifu_icb_rsp_ready)]

\* The execution stage: in order, one load at a time.  A flush turns interrupts
\* off, so that one that is pending then is taken no more.
Exu(in) ==
    LET successor ==
            CASE IrOp.op = "J" -> Plus(npc, IrOp.off)
              [] IrOp.op = "JR" -> x[IrOp.rs1]
              [] OTHER -> Plus(npc, IrOp.len)
        loaded == IF in.done THEN [x EXCEPT ![ld] = in.val] ELSE x
    IN  /\ x' = IF in.acc /\ IrOp.op = "S" THEN [loaded EXCEPT ![IrOp.rd] = in.val]
                ELSE loaded
        /\ ld' = IF in.acc /\ IrOp.op = "L" THEN IrOp.rd
                 ELSE IF in.done THEN "x0" ELSE ld
        /\ wfi' = SetClr(wfi, in.acc /\ IrOp.op = "WFI", in.wake)
        /\ mie' = ((in.mie \/ mie) /\ ~in.wake /\ in.flush = None)
        /\ irq' = ((irq \/ (in.wake /\ mie)) /\ in.flush = None)
        /\ npc' = IF in.flush # None THEN in.flush ELSE IF in.acc THEN successor ELSE npc
        /\ astray' = /\ astray \/ (in.wake /\ ~mie /\ ~out_flag /\ ~dly_flush)
                     /\ in.flush = None

Edge(in) ==
    LET r == pc_nxt(in)
        req == ifu_req_hsked(in, r)
        rsp == ifu_rsp_hsked(in, r)
        a == ifu_icb_cmd_addr(in, r)
        valid == ifu_icb_cmd_valid(in, r)
        cmd == valid /\ ifu_icb_cmd_ready(in, r)
    IN  /\ Ifetch(in, r, req, rsp)
        /\ Ift2icb(in, r, req, rsp, a, cmd)
        /\ ItcmCtrl(in, a, valid /\ a \in Itcm)
        /\ Bus(in, a, cmd)
        /\ Exu(in)
        /\ UNCHANGED prog

Init ==
    /\ prog \in Programs
    /\ reset_flag = TRUE /\ reset_req = FALSE /\ halt_ack = FALSE /\ dly_flush = FALSE
    /\ ir_valid = FALSE /\ ir_pc_vld = FALSE /\ ir = <<None, None>> /\ ifu_pc = 0
    /\ rs1idx = "x0" /\ rdrf = FALSE /\ pc = 0 /\ out_flag = FALSE /\ newpend = FALSE
    /\ state = "IDLE" /\ same_cross = FALSE /\ uop2 = FALSE /\ uop0 = FALSE /\ cross = FALSE
    /\ target = "none" /\ addr_2_1 = 0 /\ leftover = None /\ rspbuf = <<>>
    /\ cmdbuf = NoCmd /\ e1 = "none" /\ ram = 0 /\ holdup = FALSE
    /\ bus = [lane |-> 0, busy |-> FALSE]
    /\ x = [r \in Regs |-> 0] /\ ld = "x0"
    /\ wfi = FALSE /\ mie = FALSE /\ irq = FALSE
    /\ npc = PC_RTVEC /\ astray = FALSE

\* What the environment does in a cycle, and the edge at its end.
Next ==
    \E wake \in Bool(wfi), rsp \in Bool(bus.busy),
       go \in IF BusUsed THEN BOOLEAN ELSE {TRUE},
       rdy \in IF e1 = "arbt" THEN BOOLEAN ELSE {TRUE}, done \in Bool(ld # "x0") :
    \E flush \in Flushes(wake, done), arb \in IF arbt_free(rdy) THEN {None, 0} ELSE {None} :
    \E acc \in Bool(MayAccept /\ flush = None) :
    \E on \in Bool(acc /\ IrOp.op = "WFI") :
    \E val \in IF done THEN prog.flush \cup {x[ld]}
              ELSE IF acc /\ IrOp.op = "S" THEN prog.flush ELSE {0} :
        Edge([wake |-> wake, rsp |-> rsp, go |-> go, rdy |-> rdy, done |-> done,
              flush |-> flush, arb |-> arb, acc |-> acc, mie |-> on, val |-> val])

Spec == Init /\ [][Next]_vars

-----------------------------------------------------------------------------
\* The execution stage sees the program: the instruction in the IR stage is the
\* one that has to follow, both halves of it, and its pc is right, whatever
\* flushes, two-lane fetches, held-up lanes, jumps and sleeps came before
\* (e203_ifu_ifetch.v:227-295, e203_ifu_ift2icb.v:477-760).
InOrder ==
    /\ ir_valid => ir[1] = npc /\ (IrOp.len = 2 => ir[2] = Plus(npc, 1))
    /\ ir_valid \/ (ir_pc_vld /\ ~newpend) => ifu_pc = npc

\* The same until a sleep ends without a trap after the last answer came to the
\* IR stage with no request behind it: the wake-up is the only way out of order
\* (e203_ifu_ifetch.v:431-455 and 498).
KeepsOrder == ~astray => InOrder

\* The one read that a halted fetch unit issues is that of the trap of a load
\* which ended with an error in the sleep: it is of the handler's first
\* instruction, the IR stage is empty, and interrupts are off, so that nothing
\* flushes it while it is under way (e203_ifu_ifetch.v:183-202 and 483-491,
\* e203_exu_excp.v:161-164 and 193).
SleepFetchesTrap ==
    halt_ack /\ (e1 = "ifu" \/ cmdbuf.src = "ifu" \/ state # "IDLE")
        => ~ir_valid /\ ~mie /\ pc = npc

\* The register that a jump reads through the port of the IR stage does not
\* take it from an instruction that still needs it (e203_ifu_litebpu.v:94-106).
Rs1Kept == ir_valid /\ IrOp.rs1 # "x0" => rs1idx = IrOp.rs1

\* An answer always finds its place: the fetch that waits for it is the only
\* one, so that the ITCM is never held up by the fetch unit, on which the
\* hold-up flag relies (e203_ifu_ift2icb.v:126-131, e203_itcm_ctrl.v:553-557).
AnswersFindRoom ==
    /\ e1 = "ifu" => state \in {"1ST", "2ND"} /\ target = "itcm" /\ rspbuf = <<>> /\ out_flag
    /\ out_flag <=> (state # "IDLE" \/ rspbuf # <<>>)
=============================================================================
