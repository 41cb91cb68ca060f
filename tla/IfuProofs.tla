------------------------------ MODULE IfuProofs ------------------------------
(***************************************************************************)
(* The fetch unit for every program.  Path says which read is under way,   *)
(* and holds whatever the program is; from it follow the room for every    *)
(* answer and the one read of a halted fetch unit.  Data and Stage say     *)
(* that the read returns the instruction at pc, and that pc is what        *)
(* follows the instruction in the IR stage: they hold for the programs     *)
(* without the jumps of the run fetch_jump, as long as no wake-up has led  *)
(* the pc astray as in the run fetch_halt.                                 *)
(***************************************************************************)
EXTENDS E203Ifu, TLAPS

\* The jumps that read the register file name one register: otherwise a jump
\* after a flush reads the register of another one.
XnJump(i) == i.op = "JR" /\ i.rs1 # "x1"
OneXn(p) ==
    \A a, b \in DOMAIN p.code :
       XnJump(p.code[a]) /\ XnJump(p.code[b]) => p.code[a].rs1 = p.code[b].rs1
Tame == \A p \in Programs : OneXn(p)

-----------------------------------------------------------------------------
(* The inputs of a cycle, as Next chooses them.                            *)

InputOK(in) ==
    /\ in.wake \in BOOLEAN /\ in.rdy \in BOOLEAN
    /\ in.rsp => bus.busy
    /\ in.wake => wfi
    /\ e1 # "arbt" => in.rdy
    /\ in.done => ld # "x0"
    /\ in.flush = None \/ in.flush \in prog.flush
    /\ Trap(in.wake) => in.flush # None
    /\ in.flush # None /\ ~Trap(in.wake) =>
         in.done \/ (~irq /\ ~wfi /\ (ir_valid \/ (ir_pc_vld /\ ld = "x0")))
    /\ in.arb \in {None, 0} /\ (in.arb # None => arbt_free(in.rdy))
    /\ in.acc => MayAccept /\ in.flush = None
    /\ in.mie => in.acc
    /\ in.done => in.val \in prog.flush \cup {x[ld]}
    /\ ~in.done /\ in.acc /\ IrOp.op = "S" => in.val \in prog.flush

-----------------------------------------------------------------------------
(* The invariant.                                                          *)

TypeOK ==
    /\ prog \in Programs
    /\ state \in {"IDLE", "1ST", "WAIT2ND", "2ND"}
    /\ e1 \in {"none", "ifu", "arbt"} /\ target \in {"none", "itcm", "biu"}
    /\ bus \in [lane : Int, busy : BOOLEAN]
    /\ pc \in Parcels /\ npc \in Parcels
    /\ x \in [Regs -> Parcels] /\ ld \in Regs /\ rs1idx \in Regs

\* A read of the fetch unit is under way.
Waits == state \in {"1ST", "2ND"} /\ ~(state = "1ST" /\ uop0)

\* There is one at a time, in one place; only an access by others holds it up.
Path ==
    /\ cmdbuf = NoCmd \/ (cmdbuf.src = "ifu" /\ e1 = "arbt")
    /\ e1 = "ifu" \/ cmdbuf.src = "ifu" => Waits /\ target = "itcm"
    /\ bus.busy => Waits /\ target = "biu"
    /\ rspbuf # <<>> => state = "IDLE"
    /\ out_flag <=> (state # "IDLE" \/ rspbuf # <<>>)
    /\ state \in {"WAIT2ND", "2ND"} => uop2
    /\ ~(uop2 /\ uop0) /\ ~(same_cross /\ (uop2 \/ uop0))
    /\ holdup => e1 # "arbt"

\* After reset nothing has happened yet; a sleeping core has no trap to come; a
\* flush whose request is still to come has its address in the pc and leaves
\* interrupts off; and the halt is acknowledged when there is nothing to wait for
\* but the words that a flush asked for.
Resetting == reset_flag \/ reset_req
Control ==
    /\ Resetting =>
         /\ state = "IDLE" /\ rspbuf = <<>> /\ target = "none"
         /\ ~ir_valid /\ ~ir_pc_vld /\ ~newpend /\ ~dly_flush /\ ~wfi /\ ~irq
         /\ ld = "x0" /\ npc = PC_RTVEC
    /\ ir_valid => ~dly_flush
    /\ wfi => ~irq
    /\ dly_flush => pc = npc
    /\ wfi /\ dly_flush => ~mie
    /\ halt_ack => wfi /\ (state = "IDLE" \/ (~ir_valid /\ ~mie /\ pc = npc))

\* The read, once answered, brings the lane of address a.
Reads(a) ==
    /\ target = (IF a \in Itcm THEN "itcm" ELSE "biu")
    /\ e1 = "ifu" => ram = Lane(a)
    /\ cmdbuf.src = "ifu" => cmdbuf.lane = Lane(a)
    /\ target = "biu" => bus.lane = Lane(a)

\* The lane that the fetch of address a reads last, and the promise of holdup.
LastLane(a) == IF ifu_req_lane_cross(a) THEN Plus(a, 1) ELSE Lane(a)
Held(a) == holdup /\ LastLane(a) \in Itcm => ram = LastLane(a) /\ target = "itcm"

\* Fetches(a): where the fetch of address a stands.
Fetches(a) ==
    /\ cross <=> ifu_req_lane_cross(a)
    /\ rspbuf # <<>> => rspbuf = <<a, Plus(a, 1)>> /\ Held(a)
    /\ state = "1ST" /\ uop0 =>
         a \in Itcm /\ ~cross /\ target = "itcm" /\ ram = Lane(a) /\ addr_2_1 = a % 4
    /\ state = "1ST" /\ ~uop0 /\ ~uop2 /\ ~same_cross => ~cross /\ Reads(a) /\ addr_2_1 = a % 4
    /\ state = "1ST" /\ same_cross => cross /\ leftover = a /\ Reads(Plus(a, 1))
    /\ state = "1ST" /\ uop2 => cross /\ Reads(a)
    /\ state = "WAIT2ND" => cross /\ leftover = a
    /\ state = "2ND" => cross /\ leftover = a /\ Reads(Plus(a, 1))
    /\ (state = "1ST" /\ ~uop2) \/ state = "2ND" => Held(a)

\* The fetch counts: no flush waits for its request, and no trap is to come that
\* throws away what follows the instruction in the IR stage.
Good == ~dly_flush /\ ~(irq /\ ir_valid)
Data == out_flag /\ Good => Fetches(pc)

Follows(a) ==
    CASE At(a).op = "J" -> Plus(a, At(a).off)
      [] At(a).op = "JR" -> x[At(a).rs1]
      [] OTHER -> Plus(a, At(a).len)

\* The pc is the address of the next instruction or, with that one in the IR
\* stage, of the one that follows it.
Stage ==
    /\ ~ir_valid => pc = npc /\ (newpend \/ ifu_pc = npc)
    /\ ir_valid => ifu_pc = npc
    /\ ir_valid => ir[1] = npc /\ (At(npc).len = 2 => ir[2] = Plus(npc, 1))
    /\ ir_valid /\ Good /\ out_flag => newpend /\ pc = Follows(npc)
    /\ ir_valid /\ At(npc).op = "JR" => ld # At(npc).rs1
    /\ ~out_flag => Resetting \/ dly_flush \/ (ir_valid /\ (wfi \/ irq))

\* The port was taken for a jump of the program.
Port == rdrf => \E a \in DOMAIN prog.code : XnJump(prog.code[a]) /\ rs1idx = prog.code[a].rs1

\* In a cycle without a flush the pc was right before, and the cycle is not the
\* wake-up that leads it astray; a flush sets it in any case.
Straight(in) ==
    in.flush = None => Data /\ Stage /\ ~(in.wake /\ ~mie /\ ~out_flag /\ ~dly_flush)

-----------------------------------------------------------------------------
(* Addresses.                                                              *)

\* An address stays on the ring.
LEMMA PlusType ==
    ASSUME NEW a \in Parcels, NEW n \in Int
    PROVE  Plus(a, n) \in Parcels
BY DEF Parcels, Plus

\* One step and two steps around the ring.
LEMMA PlusFacts ==
    ASSUME NEW a \in Parcels
    PROVE  /\ Plus(a, 1) = IF a = 11 THEN 0 ELSE a + 1
           /\ Plus(a, 2) = IF a \in {10, 11} THEN a - 10 ELSE a + 2
           /\ Plus(a, 3) = IF a \in {9, 10, 11} THEN a - 9 ELSE a + 3
           /\ Plus(a, 0) = a
BY DEF Parcels, Plus

\* The two halves at an address: in its lane, or the last parcel of the lane and
\* the first one of the next.
LEMMA LaneFacts ==
    ASSUME NEW a \in Parcels
    PROVE  /\ ~ifu_req_lane_cross(a) /\ a \in Itcm =>
                a % 4 # 3 /\ Lane(a) + (a % 4) = a /\ Lane(a) + ((a % 4) + 1) = Plus(a, 1)
           /\ ~ifu_req_lane_cross(a) /\ a \notin Itcm =>
                Lane(a) + 0 = a /\ Lane(a) + 1 = Plus(a, 1)
           /\ ifu_req_lane_cross(a) =>
                /\ a \in Itcm => Lane(a) + 3 = a
                /\ a \notin Itcm => Lane(a) + 1 = a
                /\ Lane(Plus(a, 1)) = Plus(a, 1) /\ Lane(Plus(a, 1)) + 0 = Plus(a, 1)
<1>1. a \in {0, 1, 2, 3, 4, 5, 6, 7, 8, 9, 10, 11}
    BY DEF Parcels
<1>2. Plus(a, 1) = IF a = 11 THEN 0 ELSE a + 1
    BY PlusFacts
<1> QED BY <1>1, <1>2 DEF ifu_req_lane_cross, Lane, Offset, LaneSize, Itcm

\* A fetch in sequence that starts in the lane read last, as ifu_req_lane_same
\* finds out from the offset alone.
LEMMA SameLane ==
    ASSUME NEW a \in Parcels, NEW n \in {1, 2}, Plus(a, n) \in Itcm,
           Offset(Plus(a, n)) = 0 => ifu_req_lane_cross(a)
    PROVE  LastLane(a) = Lane(Plus(a, n)) /\ LastLane(a) \in Itcm
<1>1. a \in {0, 1, 2, 3, 4, 5, 6, 7, 8, 9, 10, 11} /\ n \in {1, 2}
    BY DEF Parcels
<1>2. /\ Plus(a, 1) = IF a = 11 THEN 0 ELSE a + 1
      /\ Plus(a, 2) = IF a \in {10, 11} THEN a - 10 ELSE a + 2
    BY PlusFacts
<1> QED BY <1>1, <1>2 DEF LastLane, ifu_req_lane_cross, Lane, Offset, LaneSize, Itcm

\* The held-up lane has the first half, and the next lane is the one to read.
LEMMA NextLane ==
    ASSUME NEW a \in Parcels, NEW n \in {1, 2}, ifu_req_lane_cross(Plus(a, n))
    PROVE  /\ Plus(a, 1 + n) = Plus(Plus(a, n), 1)
           /\ Plus(a, n) \in Itcm => Lane(Plus(a, n)) + 3 = Plus(a, n)
<1>1. /\ Plus(a, 1) = IF a = 11 THEN 0 ELSE a + 1
      /\ Plus(a, 2) = IF a \in {10, 11} THEN a - 10 ELSE a + 2
      /\ Plus(a, 3) = IF a \in {9, 10, 11} THEN a - 9 ELSE a + 3
    BY PlusFacts
<1>2. Plus(a, n) \in Parcels
    BY PlusType
<1>3. Plus(Plus(a, n), 1) = IF Plus(a, n) = 11 THEN 0 ELSE Plus(a, n) + 1
    BY <1>2, PlusFacts
<1>4. Plus(a, 1 + n) = Plus(Plus(a, n), 1)
    BY <1>1, <1>3 DEF Parcels
<1> QED BY <1>2, <1>4, LaneFacts

-----------------------------------------------------------------------------
(* The handshakes of a cycle.                                              *)

Req(in) == ifu_req_hsked(in, pc_nxt(in))
Rsp(in) == ifu_rsp_hsked(in, pc_nxt(in))
Addr(in) == ifu_icb_cmd_addr(in, pc_nxt(in))
Valid(in) == ifu_icb_cmd_valid(in, pc_nxt(in))
Ready(in) == ifu_icb_cmd_ready(in, pc_nxt(in))
Cmd(in) == Valid(in) /\ Ready(in)
Sram(in) == Valid(in) /\ Addr(in) \in Itcm

\* The command for the next lane, once the first one is there.
Second(in) ==
    uop2 /\ ((state = "1ST" /\ ifu_icb_rsp_valid(in)) \/ state = "WAIT2ND")

\* The parts of an edge, by the names of its wires.
LEMMA EdgeParts ==
    ASSUME NEW in, Edge(in)
    PROVE  /\ Ifetch(in, pc_nxt(in), Req(in), Rsp(in))
           /\ Ift2icb(in, pc_nxt(in), Req(in), Rsp(in), Addr(in), Cmd(in))
           /\ ItcmCtrl(in, Addr(in), Sram(in))
           /\ Bus(in, Addr(in), Cmd(in))
           /\ Exu(in)
           /\ prog' = prog
BY DEF Edge, Req, Rsp, Addr, Valid, Ready, Cmd, Sram

\* Every step is an edge with inputs that the environment may choose.
LEMMA Environment ==
    ASSUME IfuAssumption, TypeOK, Next
    PROVE  \E in : InputOK(in) /\ Edge(in)
<1>a. PICK wake \in Bool(wfi), rsp \in Bool(bus.busy),
           go \in IF BusUsed THEN BOOLEAN ELSE {TRUE},
           rdy \in IF e1 = "arbt" THEN BOOLEAN ELSE {TRUE}, done \in Bool(ld # "x0") :
        \E flush \in Flushes(wake, done), arb \in IF arbt_free(rdy) THEN {None, 0} ELSE {None} :
        \E acc \in Bool(MayAccept /\ flush = None) :
        \E on \in Bool(acc /\ IrOp.op = "WFI") :
        \E val \in IF done THEN prog.flush \cup {x[ld]}
                  ELSE IF acc /\ IrOp.op = "S" THEN prog.flush ELSE {0} :
           Edge([wake |-> wake, rsp |-> rsp, go |-> go, rdy |-> rdy, done |-> done,
                 flush |-> flush, arb |-> arb, acc |-> acc, mie |-> on, val |-> val])
    BY DEF Next
<1>b. PICK flush \in Flushes(wake, done), arb \in IF arbt_free(rdy) THEN {None, 0} ELSE {None} :
        \E acc \in Bool(MayAccept /\ flush = None) :
        \E on \in Bool(acc /\ IrOp.op = "WFI") :
        \E val \in IF done THEN prog.flush \cup {x[ld]}
                  ELSE IF acc /\ IrOp.op = "S" THEN prog.flush ELSE {0} :
           Edge([wake |-> wake, rsp |-> rsp, go |-> go, rdy |-> rdy, done |-> done,
                 flush |-> flush, arb |-> arb, acc |-> acc, mie |-> on, val |-> val])
    BY <1>a
<1>c. PICK acc \in Bool(MayAccept /\ flush = None) :
        \E on \in Bool(acc /\ IrOp.op = "WFI") :
        \E val \in IF done THEN prog.flush \cup {x[ld]}
                  ELSE IF acc /\ IrOp.op = "S" THEN prog.flush ELSE {0} :
           Edge([wake |-> wake, rsp |-> rsp, go |-> go, rdy |-> rdy, done |-> done,
                 flush |-> flush, arb |-> arb, acc |-> acc, mie |-> on, val |-> val])
    BY <1>b
<1>d. PICK on \in Bool(acc /\ IrOp.op = "WFI") :
        \E val \in IF done THEN prog.flush \cup {x[ld]}
                  ELSE IF acc /\ IrOp.op = "S" THEN prog.flush ELSE {0} :
           Edge([wake |-> wake, rsp |-> rsp, go |-> go, rdy |-> rdy, done |-> done,
                 flush |-> flush, arb |-> arb, acc |-> acc, mie |-> on, val |-> val])
    BY <1>c
<1>1. PICK val \in IF done THEN prog.flush \cup {x[ld]}
                   ELSE IF acc /\ IrOp.op = "S" THEN prog.flush ELSE {0} :
           Edge([wake |-> wake, rsp |-> rsp, go |-> go, rdy |-> rdy, done |-> done,
                 flush |-> flush, arb |-> arb, acc |-> acc, mie |-> on, val |-> val])
    BY <1>d
<1> DEFINE in == [wake |-> wake, rsp |-> rsp, go |-> go, rdy |-> rdy, done |-> done,
                  flush |-> flush, arb |-> arb, acc |-> acc, mie |-> on, val |-> val]
<1>2. /\ in.wake = wake /\ in.rsp = rsp /\ in.rdy = rdy /\ in.done = done
      /\ in.flush = flush /\ in.arb = arb /\ in.acc = acc /\ in.mie = on /\ in.val = val
    OBVIOUS
<1>3. prog.flush \subseteq Parcels
    BY DEF IfuAssumption, TypeOK
<1>4. None \notin prog.flush
    BY <1>3 DEF Parcels, None
<1>5. wake \in BOOLEAN /\ rdy \in BOOLEAN
    BY DEF Bool
<1>6. /\ rsp => bus.busy
      /\ wake => wfi
      /\ e1 # "arbt" => rdy
      /\ done => ld # "x0"
      /\ acc => MayAccept /\ flush = None
      /\ on => acc
    BY DEF Bool
<1>7. /\ flush = None \/ flush \in prog.flush
      /\ Trap(wake) => flush # None
      /\ flush # None /\ ~Trap(wake) =>
           done \/ (~irq /\ ~wfi /\ (ir_valid \/ (ir_pc_vld /\ ld = "x0")))
    BY <1>4 DEF Flushes
<1>8. /\ arb \in {None, 0} /\ (arb # None => arbt_free(rdy))
      /\ done => val \in prog.flush \cup {x[ld]}
      /\ ~done /\ acc /\ IrOp.op = "S" => val \in prog.flush
    OBVIOUS
<1>9. InputOK(in)
    <2> HIDE DEF in
    <2> QED BY <1>2, <1>5, <1>6, <1>7, <1>8 DEF InputOK
<1> QED BY <1>1, <1>9

\* An answer comes only to a fetch that waits for it, and there is room for it.
LEMMA Answers ==
    ASSUME Path, NEW in, InputOK(in)
    PROVE  /\ ifu_icb_rsp_valid(in) => Waits /\ rspbuf = <<>>
           /\ i_ifu_rsp_valid(in) <=>
                (state = "1ST" /\ uop0) \/ (ifu_icb_rsp_valid(in) /\ ~(uop2 /\ state = "1ST"))
           /\ i_ifu_rsp_valid(in) =>
                rspbuf = <<>> /\ state \in {"1ST", "2ND"} /\ ~(state = "1ST" /\ uop2)
           /\ i_ifu_rsp_hsked(in) <=> i_ifu_rsp_valid(in)
           /\ ifu_icb_rsp_hsked(in) <=> ifu_icb_rsp_valid(in)
           /\ ifu_rsp_valid(in) => out_flag
           /\ e1 = "ifu" => ifu_icb_rsp_ready
           /\ bus.busy => ifu_icb_rsp_ready
<1>1. ifu_icb_rsp_valid(in) => Waits /\ rspbuf = <<>>
    BY DEF Path, InputOK, ifu_icb_rsp_valid, Waits
<1>2. i_ifu_rsp_valid(in) <=>
        (state = "1ST" /\ uop0) \/ (ifu_icb_rsp_valid(in) /\ ~(uop2 /\ state = "1ST"))
    BY DEF i_ifu_rsp_valid, ifu_icb_rsp2leftover
<1>3. i_ifu_rsp_valid(in) =>
        rspbuf = <<>> /\ state \in {"1ST", "2ND"} /\ ~(state = "1ST" /\ uop2)
    BY <1>1, <1>2 DEF Path, Waits
<1>4. i_ifu_rsp_hsked(in) <=> i_ifu_rsp_valid(in)
    BY <1>3 DEF i_ifu_rsp_hsked
<1>5. ifu_icb_rsp_hsked(in) <=> ifu_icb_rsp_valid(in)
    BY <1>1 DEF ifu_icb_rsp_hsked, ifu_icb_rsp_ready
<1>6. ifu_rsp_valid(in) => out_flag
    BY <1>3 DEF ifu_rsp_valid, Path
<1>7. (e1 = "ifu" => ifu_icb_rsp_ready) /\ (bus.busy => ifu_icb_rsp_ready)
    BY DEF Path, Waits, ifu_icb_rsp_ready
<1> QED BY <1>1, <1>2, <1>3, <1>4, <1>5, <1>6, <1>7

\* A request goes out when no read is under way; a command is the one of a
\* request, unless its words are there, or the second one of a fetch.
LEMMA Requests ==
    ASSUME Path, NEW in, InputOK(in)
    PROVE  /\ Req(in) => /\ ifu_req_valid_pre(in) /\ (~out_flag \/ Rsp(in)) /\ Ready(in)
                         /\ state = "IDLE" \/ i_ifu_rsp_valid(in)
                         /\ ~Second(in) /\ ~(uop2 /\ state \in {"1ST", "WAIT2ND"})
           /\ Cmd(in) <=> \/ Req(in) /\ ~req_need_0uop(in, pc_nxt(in))
                          \/ Second(in) /\ Ready(in)
           /\ Rsp(in) => ifu_rsp_valid(in) /\ ifu_rsp_ready(in, pc_nxt(in))
           /\ Req(in) => Addr(in) = IF req_same_cross_holdup(in, pc_nxt(in))
                                    THEN Plus(pc, 1 + Dec.len) ELSE pc_nxt(in)
           /\ Second(in) => Addr(in) = Plus(pc, 1)
<1>1. Req(in) => /\ ifu_req_valid_pre(in) /\ (~out_flag \/ Rsp(in)) /\ Ready(in)
                 /\ ifu_req_ready_condi(in)
    BY DEF Req, Rsp, Ready, ifu_req_hsked, ifu_req_valid, ifu_req_ready
<1>2. ifu_req_ready_condi(in) =>
        (state = "IDLE" \/ i_ifu_rsp_valid(in)) /\ ~(uop2 /\ state \in {"1ST", "WAIT2ND"})
    BY Answers DEF ifu_req_ready_condi
<1>3. Second(in) => uop2 /\ state \in {"1ST", "WAIT2ND"}
    BY DEF Second
<1>4. Cmd(in) <=> \/ Req(in) /\ ~req_need_0uop(in, pc_nxt(in))
                  \/ Second(in) /\ Ready(in)
    BY Answers DEF Cmd, Valid, Ready, Req, Second, ifu_icb_cmd_valid, ifu_req_hsked,
                   ifu_req_ready
<1>5. Rsp(in) => ifu_rsp_valid(in) /\ ifu_rsp_ready(in, pc_nxt(in))
    BY DEF Rsp, ifu_rsp_hsked
<1>6. /\ Req(in) => Addr(in) = IF req_same_cross_holdup(in, pc_nxt(in))
                               THEN Plus(pc, 1 + Dec.len) ELSE pc_nxt(in)
      /\ Second(in) => Addr(in) = Plus(pc, 1)
    BY <1>1, <1>2, <1>3 DEF Addr, ifu_icb_cmd_addr
<1> QED BY <1>1, <1>2, <1>3, <1>4, <1>5, <1>6

-----------------------------------------------------------------------------
(* What an edge does to the memories and to the fetch.                     *)

\* The ITCM reads for a command at once, or keeps it behind an access by others.
LEMMA ItcmTakes ==
    ASSUME TypeOK, Path, NEW in, InputOK(in), Edge(in), Cmd(in), Addr(in) \in Itcm
    PROVE  \/ e1' = "ifu" /\ cmdbuf' = NoCmd /\ ram' = Lane(Addr(in))
           \/ /\ e1' = "arbt" /\ ~holdup'
              /\ cmdbuf' = [src |-> "ifu", lane |-> Lane(Addr(in))]
<1> DEFINE c == [src |-> "ifu", lane |-> Lane(Addr(in))]
<1>1. ItcmCtrl(in, Addr(in), Sram(in)) /\ Sram(in)
    BY EdgeParts DEF Cmd, Sram
<1>2. in.arb = None /\ cmdbuf = NoCmd
    BY DEF Cmd, Ready, Addr, ifu_icb_cmd_ready, Path
<1>3. c.src = "ifu" /\ c.lane = Lane(Addr(in)) /\ c # NoCmd
    BY DEF NoCmd
<1> HIDE DEF c
<1>4. CASE e1 = "arbt" /\ ~in.rdy
    <2>1. ~holdup
        BY <1>4 DEF Path
    <2>2. cmdbuf' = c /\ e1' = e1 /\ holdup' = holdup
        BY <1>1, <1>2, <1>3, <1>4 DEF ItcmCtrl, c
    <2> QED BY <1>4, <2>1, <2>2 DEF c
<1>5. CASE ~(e1 = "arbt" /\ ~in.rdy)
    <2>1. cmdbuf' = NoCmd /\ e1' = c.src /\ ram' = c.lane
        BY <1>1, <1>2, <1>3, <1>5, Answers DEF ItcmCtrl, c, TypeOK, InputOK
    <2> QED BY <1>3, <2>1
<1> QED BY <1>4, <1>5

\* Without a command it reads nothing for the fetch unit, and what it holds up
\* stays unless another access reads.
LEMMA ItcmLeaves ==
    ASSUME TypeOK, Path, NEW in, InputOK(in), Edge(in),
           ~(Cmd(in) /\ Addr(in) \in Itcm), cmdbuf = NoCmd
    PROVE  /\ cmdbuf' = NoCmd /\ e1' # "ifu"
           /\ holdup' => holdup /\ ram' = ram /\ e1' # "arbt"
           /\ in.arb = None => ram' = ram /\ (holdup' <=> holdup)
<1>1. ItcmCtrl(in, Addr(in), Sram(in))
    BY EdgeParts
<1>2. in.arb = None => ~Sram(in)
    BY DEF Cmd, Sram, Ready, Addr, ifu_icb_cmd_ready, NoCmd
<1>3. CASE in.arb = None
    <2>1. cmdbuf' = NoCmd /\ ram' = ram /\ holdup' = holdup
        BY <1>1, <1>2, <1>3 DEF ItcmCtrl
    <2>2. e1' # "ifu" /\ (e1' = "arbt" => e1 = "arbt")
        BY <1>1, <1>2, <1>3, Answers DEF ItcmCtrl
    <2> QED BY <2>1, <2>2 DEF Path
<1>4. CASE in.arb # None
    <2> DEFINE c == [src |-> "arbt", lane |-> in.arb]
    <2>1. c.src = "arbt" /\ c # NoCmd
        BY DEF NoCmd
    <2> HIDE DEF c
    <2>2. e1 = "arbt" => in.rdy
        BY <1>4 DEF InputOK, arbt_free
    <2>3. e1 \in {"none", "ifu", "arbt"}
        BY DEF TypeOK
    <2>4. cmdbuf' = NoCmd /\ e1' = c.src /\ ~holdup'
        BY <1>1, <1>4, <2>1, <2>2, <2>3, Answers DEF ItcmCtrl, c
    <2> QED BY <1>4, <2>1, <2>4
<1> QED BY <1>3, <1>4

\* No request and no command while a read is under way.
LEMMA Busy ==
    ASSUME Path, NEW in, InputOK(in), Waits, ~ifu_icb_rsp_valid(in)
    PROVE  ~i_ifu_rsp_valid(in) /\ ~Req(in) /\ ~Second(in) /\ ~Cmd(in) /\ ~Rsp(in)
<1>1. ~i_ifu_rsp_valid(in)
    BY Answers DEF Waits
<1>2. ~Req(in) /\ ~Second(in)
    BY <1>1, Requests DEF Waits, Second
<1>3. ~Rsp(in)
    BY <1>1, Requests DEF Path, Waits, ifu_rsp_valid
<1> QED BY <1>1, <1>2, <1>3, Requests

\* A command kept in the buffer stays there or reads its lane.
LEMMA ItcmKeeps ==
    ASSUME Path, NEW in, InputOK(in), Edge(in), cmdbuf.src = "ifu"
    PROVE  /\ ~ifu_icb_rsp_valid(in) /\ ~holdup'
           /\ \/ e1' = "ifu" /\ cmdbuf' = NoCmd /\ ram' = cmdbuf.lane
              \/ e1' = "arbt" /\ cmdbuf' = cmdbuf /\ ram' = ram
<1>1. cmdbuf # NoCmd /\ e1 = "arbt" /\ Waits /\ target = "itcm" /\ ~holdup
    BY DEF Path, NoCmd
<1>2. ~ifu_icb_rsp_valid(in)
    BY <1>1 DEF ifu_icb_rsp_valid
<1>3. ~Sram(in)
    BY <1>1, <1>2, Answers, Busy
       DEF Sram, Valid, ifu_icb_cmd_valid, ifu_req_ready_condi, Waits
<1>4. ItcmCtrl(in, Addr(in), Sram(in))
    BY EdgeParts
<1>5. CASE in.rdy
    <2>1. e1' = "ifu" /\ cmdbuf' = NoCmd /\ ram' = cmdbuf.lane /\ ~holdup'
        BY <1>1, <1>3, <1>4, <1>5 DEF ItcmCtrl
    <2> QED BY <1>2, <2>1
<1>6. CASE ~in.rdy
    <2>1. e1' = "arbt" /\ cmdbuf' = cmdbuf /\ ram' = ram /\ holdup' = holdup
        BY <1>1, <1>4, <1>6 DEF ItcmCtrl
    <2> QED BY <1>1, <1>2, <2>1
<1> QED BY <1>5, <1>6

\* The bus reads for a command, or answers.
LEMMA BusStep ==
    ASSUME TypeOK, Path, NEW in, InputOK(in), Edge(in)
    PROVE  /\ Cmd(in) /\ Addr(in) \notin Itcm =>
                bus' = [lane |-> Lane(Addr(in)), busy |-> TRUE]
           /\ ~(Cmd(in) /\ Addr(in) \notin Itcm) =>
                bus'.lane = bus.lane /\ bus'.busy \in BOOLEAN /\ (bus'.busy => bus.busy /\ ~in.rsp)
<1>1. Bus(in, Addr(in), Cmd(in))
    BY EdgeParts
<1>2. ASSUME ~(Cmd(in) /\ Addr(in) \notin Itcm)
      PROVE  bus'.lane = bus.lane /\ bus'.busy \in BOOLEAN /\ (bus'.busy => bus.busy /\ ~in.rsp)
    <2> DEFINE b == bus.busy /\ ~(in.rsp /\ ifu_icb_rsp_ready)
    <2>1. bus' = [bus EXCEPT !.busy = b]
        BY <1>1, <1>2 DEF Bus
    <2>2. b \in BOOLEAN /\ (b => bus.busy /\ ~in.rsp)
        BY Answers
    <2> HIDE DEF b
    <2>3. bus'.lane = bus.lane /\ bus'.busy = b
        BY <2>1 DEF TypeOK
    <2> QED BY <2>2, <2>3
<1> QED BY <1>1, <1>2 DEF Bus

\* The fetch and the answer kept for the IR stage.
LEMMA FetchStep ==
    ASSUME TypeOK, Path, NEW in, InputOK(in), Edge(in)
    PROVE  /\ out_flag' <=> Req(in) \/ (out_flag /\ ~Rsp(in))
           /\ Req(in) => state' = "1ST" /\ rspbuf' = <<>>
           /\ ~Req(in) /\ state = "IDLE" =>
                state' = "IDLE" /\ rspbuf' = IF Rsp(in) THEN <<>> ELSE rspbuf
           /\ ~Req(in) /\ i_ifu_rsp_valid(in) =>
                state' = "IDLE" /\ rspbuf' = IF Rsp(in) THEN <<>> ELSE i_ifu_rsp_instr
           /\ Second(in) => state' = (IF Ready(in) THEN "2ND" ELSE "WAIT2ND") /\ rspbuf' = <<>>
           /\ ~Req(in) /\ Waits /\ ~ifu_icb_rsp_valid(in) => state' = state /\ rspbuf' = <<>>
<1>1. /\ Ifetch(in, pc_nxt(in), Req(in), Rsp(in))
      /\ Ift2icb(in, pc_nxt(in), Req(in), Rsp(in), Addr(in), Cmd(in))
    BY EdgeParts
<1>2. /\ state' = icb_state_nxt(in, pc_nxt(in), Req(in))
      /\ rspbuf' = IF rspbuf # <<>> THEN (IF Rsp(in) THEN <<>> ELSE rspbuf)
                   ELSE IF i_ifu_rsp_valid(in) /\ ~ifu_rsp_ready(in, pc_nxt(in))
                        THEN i_ifu_rsp_instr ELSE <<>>
    BY <1>1 DEF Ift2icb
<1>3. out_flag' <=> Req(in) \/ (out_flag /\ ~Rsp(in))
    BY <1>1 DEF Ifetch, SetClr
<1>4. rspbuf # <<>> \/ i_ifu_rsp_valid(in) => (Rsp(in) <=> ifu_rsp_ready(in, pc_nxt(in)))
    BY DEF Rsp, ifu_rsp_hsked, ifu_rsp_valid
<1>5. Req(in) => state' = "1ST" /\ rspbuf' = <<>>
    <2> SUFFICES ASSUME Req(in) PROVE state' = "1ST" /\ rspbuf' = <<>>
        OBVIOUS
    <2>1. state = "IDLE" \/ i_ifu_rsp_hsked(in)
        BY Requests, Answers
    <2>2. state' = "1ST"
        BY <1>2, <2>1, Answers DEF icb_state_nxt
    <2>3. rspbuf # <<>> \/ i_ifu_rsp_valid(in) => Rsp(in)
        BY Requests, Answers DEF Path
    <2> QED BY <1>2, <1>4, <2>2, <2>3
<1>6. ~Req(in) /\ state = "IDLE" =>
        state' = "IDLE" /\ rspbuf' = IF Rsp(in) THEN <<>> ELSE rspbuf
    BY <1>2, <1>4, Answers DEF icb_state_nxt
<1>7. ~Req(in) /\ i_ifu_rsp_valid(in) =>
        state' = "IDLE" /\ rspbuf' = IF Rsp(in) THEN <<>> ELSE i_ifu_rsp_instr
    BY <1>2, <1>4, Answers DEF icb_state_nxt
<1>8. Second(in) => state' = (IF Ready(in) THEN "2ND" ELSE "WAIT2ND") /\ rspbuf' = <<>>
    <2>1. Second(in) => rspbuf = <<>> /\ ~i_ifu_rsp_valid(in)
        BY Answers DEF Second, Path
    <2> QED BY <1>2, <2>1, Answers DEF icb_state_nxt, Second, Ready
<1>9. ~Req(in) /\ Waits /\ ~ifu_icb_rsp_valid(in) => state' = state /\ rspbuf' = <<>>
    <2>1. Waits /\ ~ifu_icb_rsp_valid(in) => rspbuf = <<>> /\ ~i_ifu_rsp_valid(in)
        BY Answers DEF Waits, Path
    <2> QED BY <1>2, <2>1, Answers DEF icb_state_nxt, Waits
<1> QED BY <1>3, <1>5, <1>6, <1>7, <1>8, <1>9

-----------------------------------------------------------------------------
(* Every edge preserves the types, the path of a read and the control.     *)

\* What starts at an address is an instruction, a jump through x0 never.
LEMMA Instructions ==
    ASSUME IfuAssumption, prog \in Programs, NEW a
    PROVE  /\ At(a) \in Instrs
           /\ At(a).len \in {1, 2} /\ At(a).off \in Int /\ At(a).rs1 \in Regs /\ At(a).rd \in Regs
           /\ At(a).op = "JR" =>
                a \in DOMAIN prog.code /\ At(a) = prog.code[a] /\ At(a).rs1 # "x0"
<1>1. prog.code \in [DOMAIN prog.code -> Instrs]
    BY DEF IfuAssumption
<1>2. Plain \in Instrs /\ Plain.op = "N"
    BY DEF Plain, Instrs, Regs
<1>3. At(a) \in Instrs
    BY <1>1, <1>2 DEF At
<1>4. /\ At(a).len \in {1, 2} /\ At(a).off \in Int
      /\ At(a).rs1 \in Regs /\ At(a).rd \in Regs
    BY <1>3 DEF Instrs
<1>5. At(a).op = "JR" => a \in DOMAIN prog.code /\ At(a) = prog.code[a] /\ At(a).rs1 # "x0"
    BY <1>2 DEF At, IfuAssumption
<1> QED BY <1>3, <1>4, <1>5

\* Requests and commands go to addresses.
LEMMA NextPc ==
    ASSUME IfuAssumption, TypeOK, NEW in, InputOK(in)
    PROVE  pc_nxt(in) \in Parcels /\ Addr(in) \in Parcels
<1>1. Dec.len \in Int /\ Dec.off \in Int
    BY Instructions DEF Dec, TypeOK
<1>2. in.flush # None => in.flush \in Parcels
    BY DEF InputOK, IfuAssumption, TypeOK
<1>3. prdt_pc \in Parcels
    <2>1. x["x1"] \in Parcels /\ x[rs1idx] \in Parcels
        BY DEF TypeOK, Regs
    <2>2. Plus(pc, Dec.off) \in Parcels
        BY <1>1, PlusType DEF TypeOK
    <2> QED BY <2>1, <2>2 DEF prdt_pc
<1>4. PC_RTVEC \in Parcels /\ Plus(pc, Dec.len) \in Parcels
    BY <1>1, PlusType DEF PC_RTVEC, Parcels, TypeOK
<1>5. pc_nxt(in) \in Parcels
    <2>1. CASE in.flush # None
        BY <1>2, <2>1 DEF pc_nxt
    <2>2. CASE in.flush = None /\ dly_flush
        BY <2>2 DEF pc_nxt, TypeOK
    <2>3. CASE in.flush = None /\ ~dly_flush
        BY <1>3, <1>4, <2>3 DEF pc_nxt
    <2> QED BY <2>1, <2>2, <2>3
<1>6. Plus(pc, 1) \in Parcels /\ Plus(pc, 1 + Dec.len) \in Parcels
    BY <1>1, PlusType DEF TypeOK
<1> QED BY <1>5, <1>6 DEF Addr, ifu_icb_cmd_addr

\* A lane is in the memory of its parcels.
LEMMA LaneType ==
    ASSUME NEW a \in Parcels
    PROVE  Lane(a) \in Int /\ (Lane(a) \in Itcm <=> a \in Itcm)
<1>1. a \in {0, 1, 2, 3, 4, 5, 6, 7, 8, 9, 10, 11}
    BY DEF Parcels
<1> QED BY <1>1 DEF Lane, Offset, LaneSize, Itcm

\* Registers hold addresses.
LEMMA RegisterStep ==
    ASSUME IfuAssumption, TypeOK, NEW in, InputOK(in), Edge(in)
    PROVE  x' \in [Regs -> Parcels] /\ ld' \in Regs /\ npc' \in Parcels
<1> DEFINE loaded == IF in.done THEN [x EXCEPT ![ld] = in.val] ELSE x
<1>1. Exu(in)
    BY EdgeParts
<1>2. prog.flush \subseteq Parcels
    BY DEF IfuAssumption, TypeOK
<1>3. IrOp.rs1 \in Regs /\ IrOp.rd \in Regs /\ IrOp.off \in Int /\ IrOp.len \in Int
    BY Instructions DEF IrOp, TypeOK
<1>4. loaded \in [Regs -> Parcels] /\ (in.done => in.val \in Parcels)
    BY <1>2 DEF InputOK, TypeOK
<1>5. in.acc /\ IrOp.op = "S" => in.val \in Parcels
    BY <1>2, <1>4 DEF InputOK
<1>6. x' = IF in.acc /\ IrOp.op = "S" THEN [loaded EXCEPT ![IrOp.rd] = in.val] ELSE loaded
    BY <1>1 DEF Exu
<1>7. ld' \in Regs
    BY <1>1, <1>3 DEF Exu, Regs, TypeOK
<1>8. npc' \in Parcels
    <2>1. in.flush # None => in.flush \in Parcels
        BY <1>2 DEF InputOK
    <2>2. Plus(npc, IrOp.off) \in Parcels /\ Plus(npc, IrOp.len) \in Parcels
        BY <1>3, PlusType DEF TypeOK
    <2>3. x[IrOp.rs1] \in Parcels
        BY <1>3 DEF TypeOK
    <2> QED BY <1>1, <2>1, <2>2, <2>3 DEF Exu, TypeOK
<1>9. x' \in [Regs -> Parcels]
    <2> HIDE DEF loaded
    <2> QED BY <1>4, <1>5, <1>6
<1> QED BY <1>7, <1>8, <1>9

\* The types.
LEMMA TypeStep ==
    ASSUME IfuAssumption, TypeOK, Path, NEW in, InputOK(in), Edge(in)
    PROVE  TypeOK'
<1>1. /\ Ifetch(in, pc_nxt(in), Req(in), Rsp(in))
      /\ Ift2icb(in, pc_nxt(in), Req(in), Rsp(in), Addr(in), Cmd(in))
      /\ ItcmCtrl(in, Addr(in), Sram(in))
      /\ prog' = prog
    BY EdgeParts
<1>2. prog' \in Programs
    BY <1>1 DEF TypeOK
<1>3. state' \in {"IDLE", "1ST", "WAIT2ND", "2ND"}
    <2>1. state' = icb_state_nxt(in, pc_nxt(in), Req(in))
        BY <1>1 DEF Ift2icb
    <2> QED BY <2>1 DEF icb_state_nxt, TypeOK
<1>4. e1' \in {"none", "ifu", "arbt"}
    <2>1. CASE Cmd(in) /\ Addr(in) \in Itcm
        BY <2>1, ItcmTakes
    <2>2. CASE cmdbuf.src = "ifu"
        BY <2>2, ItcmKeeps
    <2>3. CASE cmdbuf = NoCmd /\ ~(Cmd(in) /\ Addr(in) \in Itcm)
        <3>1. in.arb = None => ~Sram(in)
            BY <2>3 DEF Cmd, Sram, Ready, Addr, ifu_icb_cmd_ready, NoCmd
        <3> DEFINE c == [src |-> "arbt", lane |-> in.arb]
        <3>2. c.src = "arbt"
            OBVIOUS
        <3>3. in.arb = None => e1' \in {"none", e1}
            BY <1>1, <2>3, <3>1 DEF ItcmCtrl
        <3>4. in.arb # None => e1' \in {c.src, "none", e1}
            <4> HIDE DEF c
            <4> QED BY <1>1, <2>3 DEF ItcmCtrl, c
        <3> QED BY <3>2, <3>3, <3>4 DEF TypeOK
    <2> QED BY <2>1, <2>2, <2>3 DEF Path
<1>5. target' \in {"none", "itcm", "biu"}
    BY <1>1 DEF Ift2icb, TypeOK
<1>6. bus' \in [lane : Int, busy : BOOLEAN]
    <2>1. CASE Cmd(in) /\ Addr(in) \notin Itcm
        <3> DEFINE l == Lane(Addr(in))
        <3>1. l \in Int /\ bus' = [lane |-> l, busy |-> TRUE]
            BY <2>1, BusStep, NextPc, LaneType
        <3> HIDE DEF l
        <3> QED BY <3>1
    <2>2. CASE ~(Cmd(in) /\ Addr(in) \notin Itcm)
        <3> DEFINE b == bus.busy /\ ~(in.rsp /\ ifu_icb_rsp_ready)
        <3>1. bus' = [bus EXCEPT !.busy = b]
            BY <2>2, EdgeParts DEF Bus
        <3>2. b \in BOOLEAN
            OBVIOUS
        <3> HIDE DEF b
        <3> QED BY <3>1, <3>2 DEF TypeOK
    <2> QED BY <2>1, <2>2
<1>7. pc' \in Parcels
    BY <1>1, NextPc DEF Ifetch, TypeOK
<1>8. rs1idx' \in Regs
    <2>1. Dec.rs1 \in Regs
        BY Instructions DEF Dec, TypeOK
    <2> QED BY <1>1, <2>1 DEF Ifetch, TypeOK
<1> QED BY <1>2, <1>3, <1>4, <1>5, <1>6, <1>7, <1>8, RegisterStep DEF TypeOK

\* There is still one read in one place.
LEMMA PathStep ==
    ASSUME IfuAssumption, TypeOK, Path, NEW in, InputOK(in), Edge(in)
    PROVE  Path'
<1>1. Ift2icb(in, pc_nxt(in), Req(in), Rsp(in), Addr(in), Cmd(in))
    BY EdgeParts
<1>2. /\ Req(in) => /\ same_cross' = req_same_cross_holdup(in, pc_nxt(in))
                    /\ uop2' = req_need_2uop(in, pc_nxt(in))
                    /\ uop0' = req_need_0uop(in, pc_nxt(in))
      /\ ~Req(in) => same_cross' = same_cross /\ uop2' = uop2 /\ uop0' = uop0
      /\ target' = IF ~Cmd(in) THEN target ELSE IF Addr(in) \in Itcm THEN "itcm" ELSE "biu"
    BY <1>1 DEF Ift2icb
\* With a command the fetch waits for it.
<1>3. Cmd(in) => Waits' /\ target' = IF Addr(in) \in Itcm THEN "itcm" ELSE "biu"
    <2>1. CASE Req(in) /\ ~req_need_0uop(in, pc_nxt(in))
        BY <1>2, <2>1, FetchStep DEF Waits
    <2>2. CASE Second(in) /\ Ready(in)
        BY <1>2, <2>2, FetchStep DEF Waits
    <2> QED BY <1>2, <2>1, <2>2, Requests
\* And it goes on waiting until there is an answer.
<1>4. Waits /\ ~ifu_icb_rsp_valid(in) => Waits' /\ target' = target
    BY <1>2, FetchStep, Busy DEF Waits
<1>5. /\ cmdbuf' = NoCmd \/ (cmdbuf'.src = "ifu" /\ e1' = "arbt")
      /\ e1' = "ifu" \/ cmdbuf'.src = "ifu" => Waits' /\ target' = "itcm"
      /\ holdup' => e1' # "arbt"
    <2>1. CASE Cmd(in) /\ Addr(in) \in Itcm
        BY <1>3, <2>1, ItcmTakes
    <2>2. CASE cmdbuf.src = "ifu"
        BY <1>4, <2>2, ItcmKeeps DEF Path, NoCmd
    <2>3. CASE cmdbuf = NoCmd /\ ~(Cmd(in) /\ Addr(in) \in Itcm)
        BY <2>3, ItcmLeaves DEF NoCmd
    <2> QED BY <2>1, <2>2, <2>3 DEF Path
<1>6. bus'.busy => Waits' /\ target' = "biu"
    <2>1. CASE Cmd(in) /\ Addr(in) \notin Itcm
        BY <1>3, <2>1
    <2>2. CASE ~(Cmd(in) /\ Addr(in) \notin Itcm)
        <3>1. bus'.busy => bus.busy /\ ~in.rsp
            BY <2>2, BusStep
        <3>2. bus.busy /\ ~in.rsp => Waits /\ target = "biu" /\ ~ifu_icb_rsp_valid(in)
            BY DEF Path, ifu_icb_rsp_valid
        <3> QED BY <1>4, <3>1, <3>2
    <2> QED BY <2>1, <2>2
\* The four things that the state machine may do.
<1>7. \/ Req(in) \/ (~Req(in) /\ state = "IDLE") \/ (~Req(in) /\ i_ifu_rsp_valid(in))
      \/ (~Req(in) /\ Second(in)) \/ (~Req(in) /\ Waits /\ ~ifu_icb_rsp_valid(in))
    BY Answers DEF Waits, Second, TypeOK, Path
<1>8. rspbuf' # <<>> => state' = "IDLE"
    BY <1>7, FetchStep
<1>9. out_flag' <=> (state' # "IDLE" \/ rspbuf' # <<>>)
    <2>1. CASE Req(in)
        BY <2>1, FetchStep
    <2>2. CASE ~Req(in) /\ state = "IDLE"
        <3>1. Rsp(in) => out_flag
            BY Requests, Answers
        <3> QED BY <2>2, <3>1, FetchStep DEF Path
    <2>3. CASE ~Req(in) /\ i_ifu_rsp_valid(in)
        <3>1. i_ifu_rsp_instr # <<>>
            BY DEF i_ifu_rsp_instr, ifu_icb_rsp_instr
        <3>2. out_flag
            BY <2>3, Answers DEF Path
        <3> QED BY <2>3, <3>1, <3>2, FetchStep
    <2>4. CASE ~Req(in) /\ Second(in)
        <3>1. ~Rsp(in)
            BY <2>4, Requests, Answers DEF Second, ifu_rsp_valid, Path
        <3> QED BY <2>4, <3>1, FetchStep DEF Second, Path
    <2>5. CASE ~Req(in) /\ Waits /\ ~ifu_icb_rsp_valid(in)
        BY <2>5, FetchStep, Busy DEF Waits, Path
    <2> QED BY <1>7, <2>1, <2>2, <2>3, <2>4, <2>5
<1>10. state' \in {"WAIT2ND", "2ND"} => uop2'
    BY <1>2, <1>7, FetchStep DEF Second, Waits, Path
<1>11. ~(uop2' /\ uop0') /\ ~(same_cross' /\ (uop2' \/ uop0'))
    <2>1. CASE Req(in)
        BY <1>2, <2>1 DEF req_need_2uop, req_need_0uop, req_same_cross_holdup
    <2>2. CASE ~Req(in)
        BY <1>2, <2>2 DEF Path
    <2> QED BY <2>1, <2>2
<1> QED BY <1>5, <1>6, <1>8, <1>9, <1>10, <1>11 DEF Path

\* Reset, sleep and halt.
LEMMA ControlStep ==
    ASSUME IfuAssumption, TypeOK, Path, Control, NEW in, InputOK(in), Edge(in)
    PROVE  Control'
<1>1. /\ Ifetch(in, pc_nxt(in), Req(in), Rsp(in))
      /\ Ift2icb(in, pc_nxt(in), Req(in), Rsp(in), Addr(in), Cmd(in))
      /\ Exu(in)
    BY EdgeParts
<1>2. /\ reset_flag' = FALSE
      /\ reset_req' <=> (reset_flag /\ ~reset_req) \/ (reset_req /\ ~Req(in))
      /\ halt_ack' <=> (wfi_halt_ifu_req(in) /\ ifu_no_outs(in)) \/ (halt_ack /\ wfi_halt_ifu_req(in))
      /\ dly_flush' <=> (in.flush # None /\ ~Req(in)) \/ (dly_flush /\ ~Req(in))
      /\ ir_valid' <=> (Rsp(in) /\ ~pipe_flush_req_real(in)) \/ (ir_valid /\ ~ir_valid_clr(in))
    BY <1>1 DEF Ifetch, SetClr
<1>3. /\ ir_pc_vld' => newpend \/ ir_pc_vld
      /\ newpend' => Req(in) \/ in.flush # None \/ newpend
      /\ Cmd(in) \/ target' = target
    BY <1>1 DEF Ifetch, Ift2icb, SetClr
<1>4. /\ wfi' <=> (in.acc /\ IrOp.op = "WFI") \/ (wfi /\ ~in.wake)
      /\ mie' <=> (in.mie \/ mie) /\ ~in.wake /\ in.flush = None
      /\ irq' <=> (irq \/ (in.wake /\ mie)) /\ in.flush = None
      /\ ~in.acc /\ ~in.done => ld' = ld
      /\ ~in.acc /\ in.flush = None => npc' = npc
      /\ in.flush # None => npc' = in.flush
    BY <1>1 DEF Exu, SetClr
<1>5. /\ in.acc => ir_valid /\ ~wfi /\ ~irq /\ in.flush = None
      /\ in.mie => in.acc
    BY DEF InputOK, MayAccept
<1>6. in.wake => wfi
    BY DEF InputOK
<1>7. ASSUME Resetting
      PROVE  /\ in.flush = None /\ ~in.acc /\ ~in.done /\ ~in.wake /\ ~Rsp(in)
             /\ Req(in) => reset_req
             /\ ~Second(in)
    <2>1. /\ state = "IDLE" /\ rspbuf = <<>>
          /\ ~ir_valid /\ ~ir_pc_vld /\ ~dly_flush /\ ~wfi /\ ld = "x0"
        BY <1>7 DEF Control
    <2>2. in.flush = None
        BY <2>1 DEF InputOK, Trap
    <2>3. ~Rsp(in)
        BY <2>1, Requests, Answers DEF ifu_rsp_valid
    <2>4. Req(in) => reset_req
        BY <1>7, <2>1, <2>2, Requests DEF ifu_req_valid_pre, pipe_flush_req_real, Resetting
    <2> QED BY <1>5, <1>6, <2>1, <2>2, <2>3, <2>4 DEF InputOK, Second
<1>8. ASSUME Resetting'
      PROVE  /\ state' = "IDLE" /\ rspbuf' = <<>> /\ target' = "none"
             /\ ~ir_valid' /\ ~ir_pc_vld' /\ ~newpend' /\ ~dly_flush' /\ ~wfi' /\ ~irq'
             /\ ld' = "x0" /\ npc' = PC_RTVEC
    <2>1. Resetting
        BY <1>2, <1>8 DEF Resetting
    <2>2. ~Req(in)
        BY <1>2, <1>7, <1>8, <2>1 DEF Resetting
    <2>3. ~Cmd(in)
        BY <1>7, <2>1, <2>2, Requests
    <2>4. state' = "IDLE" /\ rspbuf' = <<>> /\ target' = "none"
        BY <1>3, <1>7, <2>1, <2>2, <2>3, FetchStep DEF Control
    <2>5. ~ir_valid' /\ ~ir_pc_vld' /\ ~newpend' /\ ~dly_flush'
        BY <1>2, <1>3, <1>7, <2>1, <2>2 DEF Control
    <2>6. ~wfi' /\ ~irq' /\ ld' = "x0" /\ npc' = PC_RTVEC
        BY <1>4, <1>7, <2>1 DEF Control
    <2> QED BY <2>4, <2>5, <2>6
<1>9. ir_valid' => ~dly_flush'
    BY <1>2 DEF Control, pipe_flush_req_real, ir_valid_clr
<1>10. wfi' => ~irq'
    BY <1>4, <1>5, <1>6 DEF Control
\* A flush, or the request that it waits for, empties the stage and sets the pc.
<1>11. ASSUME pipe_flush_req_real(in)
       PROVE  ~ir_valid' /\ pc' = npc' /\ (wfi' => ~mie')
    <2>1. ~ir_valid'
        BY <1>2, <1>11 DEF Control, pipe_flush_req_real, ir_valid_clr
    <2>2. pc' = IF Req(in) \/ in.flush # None THEN pc_nxt(in) ELSE pc
        BY <1>1 DEF Ifetch
    <2>3. CASE in.flush # None
        BY <1>4, <2>1, <2>2, <2>3 DEF pc_nxt
    <2>4. CASE in.flush = None
        <3>1. dly_flush /\ ~in.acc /\ ~in.mie
            BY <1>5, <1>11, <2>4 DEF Control, pipe_flush_req_real
        <3>2. pc' = pc /\ npc' = npc
            BY <1>4, <2>2, <2>4, <3>1 DEF pc_nxt
        <3> QED BY <1>4, <2>1, <3>1, <3>2 DEF Control
    <2> QED BY <2>3, <2>4
<1>12. dly_flush' => pc' = npc' /\ (wfi' => ~mie')
    BY <1>2, <1>11 DEF pipe_flush_req_real
<1>13. ASSUME halt_ack'
       PROVE  wfi' /\ (state' = "IDLE" \/ (~ir_valid' /\ ~mie' /\ pc' = npc'))
    <2>1. wfi /\ ~in.wake /\ (ifu_no_outs(in) \/ halt_ack)
        BY <1>2, <1>13 DEF wfi_halt_ifu_req
    <2>2. wfi'
        BY <1>4, <2>1
    <2>3. CASE pipe_flush_req_real(in)
        BY <1>11, <2>2, <2>3
    <2>4. CASE ~pipe_flush_req_real(in)
        <3>1. ~Req(in) /\ in.flush = None
            BY <2>1, <2>4, Requests
               DEF Control, Resetting, ifu_req_valid_pre, wfi_halt_ifu_req, pipe_flush_req_real
        <3>2. CASE state = "IDLE" \/ i_ifu_rsp_valid(in)
            BY <2>2, <3>1, <3>2, FetchStep
        <3>3. CASE ~(state = "IDLE" \/ i_ifu_rsp_valid(in))
            <4>1. rspbuf = <<>> /\ out_flag /\ ~ifu_rsp_valid(in)
                BY <3>3 DEF Path, ifu_rsp_valid
            <4>2. ~ir_valid /\ ~mie /\ pc = npc
                BY <2>1, <3>3, <4>1 DEF Control, ifu_no_outs
            <4>3. ~Rsp(in) /\ ~in.acc /\ ~in.mie
                BY <1>5, <2>1, <4>1, Requests
            <4>4. pc' = pc
                BY <1>1, <3>1 DEF Ifetch
            <4> QED BY <1>2, <1>4, <2>2, <3>1, <4>2, <4>3, <4>4
        <3> QED BY <3>2, <3>3
    <2> QED BY <2>3, <2>4
<1> QED BY <1>8, <1>9, <1>10, <1>12, <1>13 DEF Control

\* rs1idx follows the instruction that enters the IR stage, and a jump takes the
\* port from it only when it leaves or reads no register.
LEMMA Rs1Step ==
    ASSUME Rs1Kept, NEW in, Edge(in)
    PROVE  Rs1Kept'
<1> DEFINE set == Rsp(in) /\ ~pipe_flush_req_real(in)
<1>1. Ifetch(in, pc_nxt(in), Req(in), Rsp(in)) /\ prog' = prog
    BY EdgeParts
<1>2. /\ ir_valid' <=> set \/ (ir_valid /\ ~ir_valid_clr(in))
      /\ set => ir'[1] = ifu_rsp_instr[1]
      /\ ~set => ir' = ir
      /\ rs1idx' = IF (set /\ Dec.rs1 # "x0") \/ rs1xn_rdrf_set(in) THEN Dec.rs1 ELSE rs1idx
    BY <1>1 DEF Ifetch, SetClr
<1>3. IrOp' = IF set THEN Dec ELSE IrOp
    BY <1>1, <1>2 DEF IrOp, Dec, At
<1>4. CASE set
    BY <1>2, <1>3, <1>4 DEF Rs1Kept
<1>5. CASE ~set
    <2>1. rs1xn_rdrf_set(in) /\ ir_valid => ir_valid_clr(in) \/ IrOp.rs1 = "x0"
        BY DEF rs1xn_rdrf_set, jalr_rs1xn_dep, jalr_rs1xn_dep_ir_clr
    <2> QED BY <1>2, <1>3, <1>5, <2>1 DEF Rs1Kept
<1> QED BY <1>4, <1>5

-----------------------------------------------------------------------------
(* What holds for every program.                                           *)

Safe == TypeOK /\ Path /\ Control /\ Rs1Kept

\* The state after reset.
LEMMA InitSafe ==
    ASSUME IfuAssumption, Init
    PROVE  Safe
<1>1. bus \in [lane : Int, busy : BOOLEAN] /\ bus.busy = FALSE
    BY DEF Init
<1>2. x \in [Regs -> Parcels] /\ "x0" \in Regs
    BY DEF Init, Regs, Parcels
<1>3. TypeOK
    BY <1>1, <1>2 DEF Init, TypeOK, Parcels, PC_RTVEC
<1>4. Path
    BY <1>1 DEF Init, Path, NoCmd, Waits
<1>5. Control /\ Rs1Kept
    BY DEF Init, Control, Rs1Kept
<1> QED BY <1>3, <1>4, <1>5 DEF Safe

\* Every step keeps it.
LEMMA SafeStep ==
    ASSUME IfuAssumption, Safe, [Next]_vars
    PROVE  Safe'
<1>1. CASE Next
    <2>1. PICK in : InputOK(in) /\ Edge(in)
        BY <1>1, Environment DEF Safe
    <2> QED BY <2>1, TypeStep, PathStep, ControlStep, Rs1Step DEF Safe
<1>2. CASE UNCHANGED vars
    BY <1>2 DEF vars, ifetch, ift2icb, itcm, exu, Safe, TypeOK, Path, Waits, Control, Resetting,
                Rs1Kept, IrOp, At
<1> QED BY <1>1, <1>2

\* The types, the path of a read and the control, for every program.
THEOREM SafeHolds == Spec => []Safe
<1>1. Init => Safe
    BY InitSafe, IfuAssumption
<1>2. Safe /\ [Next]_vars => Safe'
    BY SafeStep, IfuAssumption
<1> QED BY <1>1, <1>2, PTL DEF Spec

\* An answer always finds its place, whatever the program, the bus and the other
\* port of the ITCM do.
THEOREM RoomForAnswers == Spec => []AnswersFindRoom
<1>1. Safe => AnswersFindRoom
    BY DEF Safe, Path, Waits, AnswersFindRoom
<1> QED BY <1>1, SafeHolds, PTL

\* The one read of a halted fetch unit is that of the trap of a load which ended
\* with an error in the sleep.
THEOREM ReadsTheHandler == Spec => []SleepFetchesTrap
<1>1. Safe => SleepFetchesTrap
    BY DEF Safe, Path, Control, Waits, SleepFetchesTrap
<1> QED BY <1>1, SafeHolds, PTL

\* An instruction in the IR stage keeps its register port.
THEOREM PortKept == Spec => []Rs1Kept
<1>1. Safe => Rs1Kept
    BY DEF Safe
<1> QED BY <1>1, SafeHolds, PTL

-----------------------------------------------------------------------------
(* The read returns the instruction at pc.                                 *)

\* A read that is under way, or the bits that are there.
LEMMA Reading ==
    ASSUME NEW a \in Parcels, NEW in, Reads(a), ifu_icb_rsp_valid(in), NEW k
    PROVE  /\ rdata(k) = Lane(a) + k
           /\ LastParcel = Lane(a) + (IF a \in Itcm THEN 3 ELSE 1)
           /\ target = IF a \in Itcm THEN "itcm" ELSE "biu"
<1>1. target = IF a \in Itcm THEN "itcm" ELSE "biu"
    BY DEF Reads
<1>2. (a \in Itcm => ram = Lane(a)) /\ (a \notin Itcm => bus.lane = Lane(a))
    BY <1>1 DEF Reads, ifu_icb_rsp_valid
<1> QED BY <1>1, <1>2 DEF rdata, LastParcel

\* The last parcel of the first lane is kept as the first half.
LEMMA FirstHalf ==
    ASSUME NEW a \in Parcels, NEW in, Fetches(a), state = "1ST", uop2, ifu_icb_rsp_valid(in)
    PROVE  LastParcel = a
<1>1. ifu_req_lane_cross(a) /\ Reads(a)
    BY DEF Fetches
<1> QED BY <1>1, Reading, LaneFacts

\* The answer is the instruction, in each of the four ways to fetch it.
LEMMA WholeInstruction ==
    ASSUME NEW a \in Parcels, NEW in, Path, InputOK(in), Fetches(a), i_ifu_rsp_valid(in)
    PROVE  i_ifu_rsp_instr = <<a, Plus(a, 1)>> /\ Held(a)
<1>1. rspbuf = <<>> /\ state \in {"1ST", "2ND"} /\ ~(state = "1ST" /\ uop2)
    BY Answers
<1>2. Held(a)
    BY <1>1 DEF Fetches
\* The lane is there already.
<1>3. CASE state = "1ST" /\ uop0
    <2>1. /\ a \in Itcm /\ ~ifu_req_lane_cross(a) /\ target = "itcm" /\ ram = Lane(a)
          /\ addr_2_1 = a % 4 /\ ~same_cross
        BY <1>3 DEF Fetches, Path
    <2>2. /\ addr_2_1 # 3 /\ Lane(a) + addr_2_1 = a /\ Lane(a) + (addr_2_1 + 1) = Plus(a, 1)
        BY <2>1, LaneFacts
    <2>3. i_ifu_rsp_instr = <<rdata(addr_2_1), rdata(addr_2_1 + 1)>>
        BY <1>3, <2>1, <2>2 DEF i_ifu_rsp_instr, rsp_instr_sel_leftover, ifu_icb_rsp_instr
    <2> QED BY <1>2, <2>1, <2>2, <2>3 DEF rdata
<1>4. ~(state = "1ST" /\ uop0) => ifu_icb_rsp_valid(in)
    BY Answers
\* One read brings both halves.
<1>5. CASE state = "1ST" /\ ~uop0 /\ ~same_cross
    <2>1. /\ ~ifu_req_lane_cross(a) /\ Reads(a) /\ addr_2_1 = a % 4
        BY <1>1, <1>5 DEF Fetches
    <2>2. /\ \A k : rdata(k) = Lane(a) + k
          /\ target = IF a \in Itcm THEN "itcm" ELSE "biu"
        BY <1>4, <1>5, <2>1, Reading
    <2>3. CASE a \in Itcm
        <3>1. addr_2_1 # 3 /\ Lane(a) + addr_2_1 = a /\ Lane(a) + (addr_2_1 + 1) = Plus(a, 1)
            BY <2>1, <2>3, LaneFacts
        <3>2. i_ifu_rsp_instr = <<rdata(addr_2_1), rdata(addr_2_1 + 1)>>
            BY <1>5, <2>2, <2>3, <3>1
               DEF i_ifu_rsp_instr, rsp_instr_sel_leftover, ifu_icb_rsp_instr
        <3> QED BY <1>2, <2>2, <3>1, <3>2
    <2>4. CASE a \notin Itcm
        <3>1. Lane(a) + 0 = a /\ Lane(a) + 1 = Plus(a, 1)
            BY <2>1, <2>4, LaneFacts
        <3>2. i_ifu_rsp_instr = <<rdata(0), rdata(1)>>
            BY <1>5, <2>2, <2>4 DEF i_ifu_rsp_instr, rsp_instr_sel_leftover, ifu_icb_rsp_instr
        <3> QED BY <1>2, <2>2, <3>1, <3>2
    <2> QED BY <2>3, <2>4
\* The first half was left over.
<1>6. CASE (state = "1ST" /\ same_cross) \/ state = "2ND"
    <2>1. ifu_req_lane_cross(a) /\ leftover = a /\ Reads(Plus(a, 1)) /\ ~(state = "1ST" /\ uop0)
        BY <1>6 DEF Fetches, Path
    <2>2. rdata(0) = Lane(Plus(a, 1)) + 0
        BY <1>4, <2>1, PlusType, Reading
    <2>3. i_ifu_rsp_instr = <<a, rdata(0)>>
        BY <1>6, <2>1 DEF i_ifu_rsp_instr, rsp_instr_sel_leftover
    <2> QED BY <1>2, <2>1, <2>2, <2>3, LaneFacts
<1> QED BY <1>1, <1>3, <1>5, <1>6

\* A command starts a read of its lane.
LEMMA ReadStarts ==
    ASSUME TypeOK, Path, NEW in, InputOK(in), Edge(in), NEW a \in Parcels,
           Cmd(in), Addr(in) = a
    PROVE  Reads(a)' /\ (holdup' /\ a \in Itcm => ram' = Lane(a) /\ target' = "itcm")
<1>1. target' = IF a \in Itcm THEN "itcm" ELSE "biu"
    BY EdgeParts DEF Ift2icb
<1>2. CASE a \in Itcm
    <2> DEFINE c == [src |-> "ifu", lane |-> Lane(a)]
    <2>1. c.lane = Lane(a) /\ NoCmd.src # "ifu"
        BY DEF NoCmd
    <2>2. \/ e1' = "ifu" /\ cmdbuf' = NoCmd /\ ram' = Lane(a)
          \/ e1' = "arbt" /\ ~holdup' /\ cmdbuf' = c
        BY <1>2, ItcmTakes
    <2> HIDE DEF c
    <2> QED BY <1>1, <1>2, <2>1, <2>2 DEF Reads
<1>3. CASE a \notin Itcm
    <2>1. cmdbuf = NoCmd
        BY Busy, ItcmKeeps DEF Path
    <2>2. cmdbuf' = NoCmd /\ e1' # "ifu" /\ NoCmd.src # "ifu"
        BY <1>3, <2>1, ItcmLeaves DEF NoCmd
    <2> DEFINE l == Lane(a)
    <2>3. bus' = [lane |-> l, busy |-> TRUE]
        BY <1>3, BusStep
    <2> HIDE DEF l
    <2>4. bus'.lane = l
        BY <2>3
    <2> QED BY <1>1, <1>3, <2>2, <2>4 DEF Reads, l
<1> QED BY <1>2, <1>3

\* It goes on until it is answered.
LEMMA ReadGoesOn ==
    ASSUME TypeOK, Path, NEW in, InputOK(in), Edge(in), NEW a,
           Waits, ~ifu_icb_rsp_valid(in), Reads(a)
    PROVE  Reads(a)'
<1>1. ~Cmd(in)
    BY Busy
<1>2. target' = target /\ bus'.lane = bus.lane
    BY <1>1, EdgeParts, BusStep DEF Ift2icb
<1>3. CASE cmdbuf.src = "ifu"
    BY <1>2, <1>3, ItcmKeeps DEF Reads, NoCmd
<1>4. CASE cmdbuf = NoCmd
    BY <1>1, <1>2, <1>4, ItcmLeaves DEF Reads, NoCmd
<1> QED BY <1>3, <1>4 DEF Path

\* What is held up stays when the fetch unit gives no command.
LEMMA HeldGoesOn ==
    ASSUME TypeOK, Path, NEW in, InputOK(in), Edge(in), NEW a, ~Cmd(in), Held(a)
    PROVE  Held(a)'
<1>1. target' = target
    BY EdgeParts DEF Ift2icb
<1>2. CASE cmdbuf.src = "ifu"
    BY <1>2, ItcmKeeps DEF Held
<1>3. CASE cmdbuf = NoCmd
    BY <1>1, <1>3, ItcmLeaves DEF Held
<1> QED BY <1>2, <1>3 DEF Path

\* A flush or a trap throws the fetch away: otherwise the present one counted.
LEMMA Counted ==
    ASSUME NEW in, InputOK(in), Edge(in), Good', in.flush = None, ~dly_flush
    PROVE  Good /\ ~(ir_valid /\ in.wake /\ mie)
<1>1. /\ irq' <=> irq \/ (in.wake /\ mie)
      /\ ir_valid /\ ~ir_valid_clr(in) => ir_valid'
    BY EdgeParts DEF Exu, Ifetch, SetClr
<1>2. in.acc => ~irq /\ ~wfi
    BY DEF InputOK, MayAccept
<1> QED BY <1>1, <1>2 DEF Good, InputOK, ir_valid_clr

\* A request in sequence that uses the lane read last comes with the answer to a
\* fetch that counted, so that it is the lane of the address before.
LEMMA Sequential ==
    ASSUME IfuAssumption, TypeOK, Path,
           NEW in, InputOK(in), Edge(in), Straight(in), Good', Req(in), NEW r, r = pc_nxt(in),
           ifu_req_lane_same(in, r), ifu_req_lane_holdup(r)
    PROVE  /\ r = Plus(pc, Dec.len) /\ Dec.len \in {1, 2}
           /\ ram = Lane(r) /\ target = "itcm"
<1>1. /\ in.flush = None /\ ~dly_flush /\ ~reset_req /\ r = Plus(pc, Dec.len)
      /\ Offset(r) = 0 => cross
      /\ r \in Itcm /\ holdup
    BY DEF ifu_req_lane_same, ifu_req_lane_holdup, ifu_req_seq, pipe_flush_req_real, pc_nxt
<1>2. Dec.len \in {1, 2}
    BY Instructions DEF Dec, TypeOK
<1>3. /\ Good /\ ~(ir_valid /\ in.wake /\ mie)
      /\ Data /\ Stage /\ ~(in.wake /\ ~mie /\ ~out_flag)
    BY <1>1, Counted DEF Straight
<1>4. ~reset_flag /\ (wfi => in.wake)
    BY <1>1, Requests DEF ifu_req_valid_pre, pipe_flush_req_real, wfi_halt_ifu_req
<1>5. out_flag
    BY <1>1, <1>3, <1>4 DEF Stage, Resetting, Good
<1>6. Fetches(pc)
    BY <1>3, <1>5 DEF Data
<1>7. Held(pc)
    <2>1. CASE state = "IDLE"
        BY <1>5, <1>6, <2>1 DEF Path, Fetches
    <2>2. CASE i_ifu_rsp_valid(in)
        BY <1>6, <2>2, WholeInstruction DEF TypeOK
    <2> QED BY <2>1, <2>2, Requests
<1>8. LastLane(pc) = Lane(r) /\ LastLane(pc) \in Itcm
    <2>1. Offset(r) = 0 => ifu_req_lane_cross(pc)
        BY <1>1, <1>6 DEF Fetches
    <2>2. pc \in Parcels
        BY DEF TypeOK
    <2> QED BY <1>1, <1>2, <2>1, <2>2, SameLane
<1> QED BY <1>1, <1>2, <1>7, <1>8 DEF Held

\* The three forms of a request.
LEMMA RequestFetches ==
    ASSUME IfuAssumption, TypeOK, Path,
           NEW in, InputOK(in), Edge(in), Straight(in), Good', Req(in)
    PROVE  Fetches(pc)'
<1> PICK r \in Parcels : r = pc_nxt(in)
    BY NextPc
<1>1. /\ same_cross' = req_same_cross_holdup(in, r)
      /\ uop2' = req_need_2uop(in, r)
      /\ uop0' = req_need_0uop(in, r)
      /\ cross' = ifu_req_lane_cross(r)
      /\ target' = IF ~Cmd(in) THEN target ELSE IF Addr(in) \in Itcm THEN "itcm" ELSE "biu"
      /\ addr_2_1' = Addr(in) % 4
      /\ req_same_cross_holdup(in, r) => leftover' = LastParcel
    BY EdgeParts DEF Ift2icb
<1>2. pc' = r
    BY EdgeParts DEF Ifetch
<1>3. state' = "1ST" /\ rspbuf' = <<>> /\ Ready(in)
    BY FetchStep, Requests
<1>4. /\ Addr(in) = IF req_same_cross_holdup(in, r) THEN Plus(pc, 1 + Dec.len) ELSE r
      /\ Cmd(in) <=> ~req_need_0uop(in, r)
    BY Requests
<1> SUFFICES Fetches(r)'
    BY <1>2 DEF Fetches, Reads, Held, LastLane, Lane, Offset, LaneSize, ifu_req_lane_cross, Plus
\* One read or two, nothing known of the lane.
<1>5. CASE ~req_same_cross_holdup(in, r) /\ ~req_need_0uop(in, r)
    <2>1. ~same_cross' /\ ~uop0' /\ (uop2' <=> ifu_req_lane_cross(r))
        BY <1>1, <1>5 DEF req_need_2uop
    <2>2. Cmd(in) /\ Addr(in) = r
        BY <1>4, <1>5
    <2>3. Reads(r)' /\ (holdup' /\ r \in Itcm => ram' = Lane(r) /\ target' = "itcm")
        BY <1>2, <2>2, ReadStarts
    <2>4. ~uop2' => Held(r)'
        BY <1>2, <2>1, <2>3, LaneType DEF Held, LastLane
    <2> QED BY <1>1, <1>3, <2>1, <2>2, <2>3, <2>4 DEF Fetches
\* The lane held up has the first half.
<1>6. CASE req_same_cross_holdup(in, r)
    <2>1. /\ ifu_req_lane_same(in, r) /\ ifu_req_lane_holdup(r) /\ ifu_req_lane_cross(r)
          /\ r \in Itcm
        BY <1>6 DEF req_same_cross_holdup, ifu_req_lane_holdup
    <2>2. r = Plus(pc, Dec.len) /\ Dec.len \in {1, 2} /\ ram = Lane(r) /\ target = "itcm"
        BY <2>1, Sequential
    <2>3. pc \in Parcels
        BY DEF TypeOK
    <2>4. Plus(pc, 1 + Dec.len) = Plus(r, 1) /\ Lane(r) + 3 = r
        BY <2>1, <2>2, <2>3, NextLane
    <2>5. leftover' = r
        BY <1>1, <1>6, <2>2, <2>4 DEF LastParcel, rdata
    <2>6. ~uop2' /\ ~uop0' /\ same_cross'
        BY <1>1, <1>6, <2>1 DEF req_need_2uop, req_need_0uop
    <2>7. Cmd(in) /\ Addr(in) = Plus(r, 1) /\ Plus(r, 1) \in Parcels
        BY <1>1, <1>2, <1>4, <1>6, <2>4, <2>6, PlusType
    <2>8. /\ Reads(Plus(r, 1))'
          /\ holdup' /\ Plus(r, 1) \in Itcm => ram' = Lane(Plus(r, 1)) /\ target' = "itcm"
        BY <2>7, ReadStarts
    <2>9. Held(r)'
        BY <1>2, <2>1, <2>8, LaneFacts DEF Held, LastLane
    <2> QED BY <1>1, <1>3, <2>1, <2>5, <2>6, <2>8, <2>9 DEF Fetches
\* The lane held up has both.
<1>7. CASE req_need_0uop(in, r)
    <2>1. /\ ifu_req_lane_same(in, r) /\ ifu_req_lane_holdup(r) /\ ~ifu_req_lane_cross(r)
          /\ r \in Itcm
        BY <1>7 DEF req_need_0uop, ifu_req_lane_holdup
    <2>2. ram = Lane(r) /\ target = "itcm"
        BY <2>1, Sequential
    <2>3. ~req_same_cross_holdup(in, r) /\ ~same_cross' /\ ~uop2' /\ uop0'
        BY <1>1, <1>7, <2>1 DEF req_same_cross_holdup, req_need_2uop
    <2>4. Addr(in) = r /\ ~Cmd(in) /\ in.arb = None /\ cmdbuf = NoCmd
        BY <1>3, <1>4, <1>7, <2>1, <2>3 DEF Ready, Addr, ifu_icb_cmd_ready, Path
    <2>5. ram' = ram /\ target' = target
        BY <1>1, <2>4, ItcmLeaves
    <2>6. Held(r)'
        BY <2>1, <2>2, <2>5 DEF Held, LastLane
    <2> QED BY <1>1, <1>3, <2>1, <2>2, <2>3, <2>4, <2>5, <2>6 DEF Fetches
<1> QED BY <1>5, <1>6, <1>7

\* Without a request, the fetch goes on.
LEMMA WaitFetches ==
    ASSUME TypeOK, Path, NEW in, InputOK(in), Edge(in), ~Req(in), ~Rsp(in), out_flag,
           pc' = pc, Fetches(pc)
    PROVE  Fetches(pc)'
<1> PICK a \in Parcels : a = pc
    BY DEF TypeOK
<1> SUFFICES ASSUME Fetches(a) PROVE Fetches(a)'
    BY DEF Fetches, Reads, Held, LastLane, Lane, Offset, LaneSize, ifu_req_lane_cross, Plus
<1>1. /\ same_cross' = same_cross /\ uop2' = uop2 /\ uop0' = uop0 /\ cross' = cross
      /\ ~Cmd(in) => addr_2_1' = addr_2_1
      /\ leftover' = IF ifu_icb_rsp2leftover /\ ifu_icb_rsp_hsked(in) THEN LastParcel ELSE leftover
    BY EdgeParts DEF Ift2icb
\* The answer waits for the IR stage.
<1>2. CASE state = "IDLE"
    <2>1. state' = "IDLE" /\ rspbuf' = rspbuf /\ rspbuf # <<>>
        BY <1>2, FetchStep DEF Path
    <2>2. ~Cmd(in)
        BY <1>2, Requests DEF Second
    <2>3. Held(a)'
        BY <2>1, <2>2, HeldGoesOn DEF Fetches
    <2> QED BY <1>1, <2>1, <2>3 DEF Fetches
<1>3. CASE i_ifu_rsp_valid(in)
    <2>1. state' = "IDLE" /\ rspbuf' = i_ifu_rsp_instr
        BY <1>3, FetchStep
    <2>2. i_ifu_rsp_instr = <<a, Plus(a, 1)>> /\ Held(a)
        BY <1>3, WholeInstruction
    <2>3. ~Cmd(in)
        BY <1>3, Requests, Answers DEF Second
    <2>4. Held(a)'
        BY <2>2, <2>3, HeldGoesOn
    <2> QED BY <1>1, <2>1, <2>2, <2>4 DEF Fetches
\* The first of two reads was answered: the second one.
<1>4. CASE Second(in)
    <2>1. uop2 /\ ~uop0 /\ ~same_cross /\ cross /\ ifu_req_lane_cross(a) /\ rspbuf' = <<>>
        BY <1>4, FetchStep DEF Second, Path, Fetches
    <2>2. leftover' = a
        BY <1>1, <1>4, <2>1, FirstHalf, Answers DEF Second, Fetches, ifu_icb_rsp2leftover
    <2>3. CASE Ready(in)
        <3>1. Cmd(in) /\ Addr(in) = Plus(a, 1) /\ Plus(a, 1) \in Parcels
            BY <1>4, <2>3, Requests, PlusType
        <3>2. state' = "2ND"
            BY <1>4, <2>3, FetchStep
        <3>3. /\ Reads(Plus(a, 1))'
              /\ holdup' /\ Plus(a, 1) \in Itcm => ram' = Lane(Plus(a, 1)) /\ target' = "itcm"
            BY <3>1, ReadStarts
        <3>4. Held(a)'
            BY <2>1, <3>3, LaneFacts DEF Held, LastLane
        <3> QED BY <1>1, <2>1, <2>2, <3>2, <3>3, <3>4 DEF Fetches
    <2>4. CASE ~Ready(in)
        <3>1. state' = "WAIT2ND"
            BY <1>4, <2>4, FetchStep
        <3> QED BY <1>1, <2>1, <2>2, <3>1 DEF Fetches
    <2> QED BY <2>3, <2>4
\* Nothing happens to the fetch.
<1>5. CASE Waits /\ ~ifu_icb_rsp_valid(in)
    <2>1. state' = state /\ rspbuf' = <<>> /\ ~Cmd(in)
        BY <1>5, FetchStep, Busy
    <2>2. leftover' = leftover
        BY <1>1, <1>5, Answers
    <2>3. /\ Reads(a) => Reads(a)'
          /\ Reads(Plus(a, 1)) => Reads(Plus(a, 1))'
          /\ Held(a) => Held(a)'
        BY <1>5, <2>1, ReadGoesOn, HeldGoesOn
    <2>4. ~(state = "1ST" /\ uop0)
        BY <1>5 DEF Waits
    <2> QED BY <1>1, <2>1, <2>2, <2>3, <2>4 DEF Fetches
<1> QED BY <1>2, <1>3, <1>4, <1>5, Answers DEF Waits, Second, TypeOK, Path

\* The fetch that counts is the one of pc.
LEMMA DataStep ==
    ASSUME IfuAssumption, TypeOK, Path, NEW in, InputOK(in), Edge(in), Straight(in)
    PROVE  Data'
<1> SUFFICES ASSUME out_flag', Good' PROVE Fetches(pc)'
    BY DEF Data
<1>1. CASE Req(in)
    BY <1>1, RequestFetches
<1>2. CASE ~Req(in)
    <2>1. out_flag /\ ~Rsp(in)
        BY <1>2, FetchStep
    <2>2. in.flush = None /\ ~dly_flush /\ pc' = pc
        BY <1>2, EdgeParts DEF Ifetch, SetClr, Good
    <2>3. Good
        BY <2>2, Counted
    <2> QED BY <1>2, <2>1, <2>2, <2>3, WaitFetches DEF Data, Straight
<1> QED BY <1>1, <1>2

-----------------------------------------------------------------------------
(* The IR stage gets what follows the instruction before.                  *)

Entered(in) == Rsp(in) /\ ~pipe_flush_req_real(in)
PcSet(in) ==
    newpend /\ (~ir_valid \/ ir_valid_clr(in)) /\ ~pipe_flush_req_real(in)

\* The registers of the IR stage after an edge.
LEMMA StageStep ==
    ASSUME NEW in, Edge(in)
    PROVE  /\ ir_valid' <=> Entered(in) \/ (ir_valid /\ ~ir_valid_clr(in))
           /\ newpend' <=> Req(in) \/ in.flush # None \/ (newpend /\ ~PcSet(in))
           /\ ifu_pc' = IF PcSet(in) THEN pc ELSE ifu_pc
           /\ pc' = IF Req(in) \/ in.flush # None THEN pc_nxt(in) ELSE pc
           /\ ~Entered(in) => ir' = ir
           /\ Entered(in) => /\ ir'[1] = ifu_rsp_instr[1]
                             /\ Dec.len = 2 => ir'[2] = ifu_rsp_instr[2]
           /\ dly_flush' <=> (in.flush # None /\ ~Req(in)) \/ (dly_flush /\ ~Req(in))
           /\ ~reset_flag'
           /\ reset_req' <=> (reset_flag /\ ~reset_req) \/ (reset_req /\ ~Req(in))
           /\ wfi' <=> (in.acc /\ IrOp.op = "WFI") \/ (wfi /\ ~in.wake)
           /\ irq' <=> (irq \/ (in.wake /\ mie)) /\ in.flush = None
           /\ prog' = prog
<1>1. Ifetch(in, pc_nxt(in), Req(in), Rsp(in)) /\ Exu(in) /\ prog' = prog
    BY EdgeParts
<1>2. Entered(in) =>
        ir' = <<ifu_rsp_instr[1], IF Dec.len = 2 THEN ifu_rsp_instr[2] ELSE ir[2]>>
    BY <1>1 DEF Ifetch, Entered
<1>3. ~Entered(in) => ir' = ir
    BY <1>1 DEF Ifetch, Entered
<1>4. /\ ir_valid' <=> Entered(in) \/ (ir_valid /\ ~ir_valid_clr(in))
      /\ newpend' <=> Req(in) \/ in.flush # None \/ (newpend /\ ~PcSet(in))
      /\ ifu_pc' = IF PcSet(in) THEN pc ELSE ifu_pc
      /\ pc' = IF Req(in) \/ in.flush # None THEN pc_nxt(in) ELSE pc
      /\ dly_flush' <=> (in.flush # None /\ ~Req(in)) \/ (dly_flush /\ ~Req(in))
      /\ ~reset_flag'
      /\ reset_req' <=> (reset_flag /\ ~reset_req) \/ (reset_req /\ ~Req(in))
    BY <1>1 DEF Ifetch, SetClr, Entered, PcSet
<1>5. /\ wfi' <=> (in.acc /\ IrOp.op = "WFI") \/ (wfi /\ ~in.wake)
      /\ irq' <=> (irq \/ (in.wake /\ mie)) /\ in.flush = None
    BY <1>1 DEF Exu, SetClr
<1> QED BY <1>1, <1>2, <1>3, <1>4, <1>5

\* The port was taken for a jump of the program.
LEMMA PortStep ==
    ASSUME IfuAssumption, TypeOK, NEW in, Edge(in)
    PROVE  Port'
<1> SUFFICES ASSUME rdrf'
    PROVE  \E a \in DOMAIN prog'.code : XnJump(prog'.code[a]) /\ rs1idx' = prog'.code[a].rs1
    BY DEF Port
<1>1. Ifetch(in, pc_nxt(in), Req(in), Rsp(in)) /\ prog' = prog
    BY EdgeParts
<1>2. rs1xn_rdrf_set(in) /\ rs1idx' = Dec.rs1
    BY <1>1 DEF Ifetch
<1>3. Dec.op = "JR" /\ Dec.rs1 # "x1"
    BY <1>2 DEF rs1xn_rdrf_set, OfXn
<1>4. PICK a : a = ifu_rsp_instr[1]
    OBVIOUS
<1>5. a \in DOMAIN prog.code /\ Dec = prog.code[a]
    BY <1>3, <1>4, Instructions DEF Dec, TypeOK
<1>6. XnJump(prog.code[a])
    BY <1>3, <1>5 DEF XnJump
<1> QED BY <1>1, <1>2, <1>5, <1>6

\* The answer that enters is the instruction at pc.
LEMMA Answered ==
    ASSUME TypeOK, Path, Data, Good, NEW in, InputOK(in), Rsp(in)
    PROVE  ifu_rsp_instr[1] = pc /\ ifu_rsp_instr[2] = Plus(pc, 1) /\ Dec = At(pc) /\ out_flag
<1>1. ifu_rsp_valid(in) /\ out_flag
    BY Requests, Answers
<1>2. Fetches(pc)
    BY <1>1 DEF Data
<1>3. ifu_rsp_instr = <<pc, Plus(pc, 1)>>
    <2>1. CASE rspbuf # <<>>
        BY <1>2, <2>1 DEF Fetches, ifu_rsp_instr
    <2>2. CASE rspbuf = <<>>
        <3>1. i_ifu_rsp_valid(in)
            BY <1>1, <2>2 DEF ifu_rsp_valid
        <3> QED BY <1>2, <2>2, <3>1, WholeInstruction DEF ifu_rsp_instr, TypeOK
    <2> QED BY <2>1, <2>2
<1> QED BY <1>1, <1>3 DEF Dec

\* When it enters, the next request goes out, unless the core sleeps.
LEMMA Entering ==
    ASSUME Path, Control, NEW in, InputOK(in), Entered(in)
    PROVE  /\ ~bpu_wait(in) /\ ~Resetting /\ in.flush = None /\ ~dly_flush
           /\ ~ir_valid \/ ir_valid_clr(in)
           /\ Req(in) <=> ~wfi_halt_ifu_req(in)
<1>1. /\ ifu_rsp_valid(in) /\ in.flush = None /\ ~dly_flush /\ ~bpu_wait(in)
      /\ ~ir_valid \/ ir_valid_clr(in)
      /\ ifu_req_ready(in, pc_nxt(in)) /\ Rsp(in)
    BY Requests DEF Entered, pipe_flush_req_real, ifu_rsp_ready
<1>2. ~Resetting
    BY <1>1, Answers DEF Control, Path
<1>3. Req(in) <=> ifu_req_valid_pre(in)
    BY <1>1 DEF Req, Rsp, ifu_req_hsked, ifu_req_valid
<1>4. ifu_req_valid_pre(in) <=> ~wfi_halt_ifu_req(in)
    BY <1>1, <1>2 DEF ifu_req_valid_pre, Resetting, pipe_flush_req_real
<1> QED BY <1>1, <1>2, <1>3, <1>4

\* A jump that enters reads its register, and nothing is about to write it.
LEMMA JumpReads ==
    ASSUME Tame, IfuAssumption, TypeOK, Path, Control, Port,
           NEW in, InputOK(in), Entered(in), Dec.op = "JR"
    PROVE  /\ ld = "x0" /\ prdt_pc = x[Dec.rs1]
           /\ ir_valid => Dec.rs1 = "x1" /\ IrOp.rd # "x1"
<1>1. ~bpu_wait(in) /\ ifu_rsp_valid(in)
    BY Entering, Requests DEF Entered
<1>2. CASE Dec.rs1 = "x1"
    BY <1>1, <1>2 DEF bpu_wait, jalr_rs1x1_dep, OfX1, prdt_pc
<1>3. CASE Dec.rs1 # "x1"
    <2>1. OfXn /\ ld = "x0" /\ ~ir_valid /\ rdrf
        BY <1>1, <1>3 DEF bpu_wait, jalr_rs1xn_dep, rs1xn_rdrf_set, OfXn
    <2>2. PICK a \in DOMAIN prog.code : XnJump(prog.code[a]) /\ rs1idx = prog.code[a].rs1
        BY <2>1 DEF Port
    <2>3. PICK b : b = ifu_rsp_instr[1]
        OBVIOUS
    <2>4. b \in DOMAIN prog.code /\ Dec = prog.code[b]
        BY <2>3, Instructions DEF Dec, TypeOK
    <2>5. rs1idx = Dec.rs1
        BY <1>3, <2>2, <2>4 DEF Tame, OneXn, XnJump, TypeOK
    <2> QED BY <1>3, <2>1, <2>5 DEF prdt_pc, OfX1
<1> QED BY <1>2, <1>3

\* A register keeps its value and gets no load under way, unless the instruction
\* that leaves writes it or the load under way does.
LEMMA Unwritten ==
    ASSUME TypeOK, NEW in, InputOK(in), Edge(in), NEW r \in Regs, r # "x0", ld # r,
           in.acc => IrOp.rd # r
    PROVE  x'[r] = x[r] /\ ld' # r
<1> DEFINE loaded == IF in.done THEN [x EXCEPT ![ld] = in.val] ELSE x
<1>1. /\ x' = IF in.acc /\ IrOp.op = "S" THEN [loaded EXCEPT ![IrOp.rd] = in.val] ELSE loaded
      /\ ld' = IF in.acc /\ IrOp.op = "L" THEN IrOp.rd ELSE IF in.done THEN "x0" ELSE ld
    BY EdgeParts DEF Exu
<1>2. loaded[r] = x[r] /\ DOMAIN loaded = Regs
    BY DEF TypeOK
<1> HIDE DEF loaded
<1>3. x'[r] = x[r]
    BY <1>1, <1>2
<1> QED BY <1>1, <1>3

\* A flush moves the pc at once, its request may come later.
LEMMA FlushStage ==
    ASSUME TypeOK, Path, Control, NEW in, InputOK(in), Edge(in), Straight(in),
           in.flush # None \/ dly_flush
    PROVE  Stage'
<1>1. npc' = IF in.flush # None THEN in.flush ELSE IF in.acc THEN npc' ELSE npc
    BY EdgeParts DEF Exu
<1>2. ~Entered(in) /\ ~PcSet(in)
    BY DEF Entered, PcSet, pipe_flush_req_real
<1>3. ~ir_valid'
    BY <1>2, StageStep DEF Control, ir_valid_clr
<1>4. pc' = npc' /\ (newpend' \/ ifu_pc' = npc')
    <2>1. CASE in.flush # None
        BY <1>1, <2>1, StageStep DEF pc_nxt
    <2>2. CASE in.flush = None /\ dly_flush
        <3>1. ~ir_valid /\ ~in.acc
            BY <2>2 DEF Control, InputOK, MayAccept
        <3>2. npc' = npc /\ pc' = pc
            BY <1>1, <2>2, <3>1, StageStep DEF pc_nxt
        <3> QED BY <1>2, <2>2, <3>1, <3>2, StageStep DEF Straight, Stage
    <2> QED BY <2>1, <2>2
<1>5. ~out_flag' => dly_flush'
    BY FetchStep, StageStep
<1> QED BY <1>3, <1>4, <1>5 DEF Stage

\* The instruction in the IR stage stays there.
LEMMA StayStage ==
    ASSUME IfuAssumption, TypeOK, Path, Control, NEW in, InputOK(in), Edge(in), Straight(in),
           in.flush = None, ~dly_flush, ir_valid, ~in.acc
    PROVE  Stage'
<1>0. Stage /\ ~(in.wake /\ ~mie /\ ~out_flag)
    BY DEF Straight
<1>1. ~ir_valid_clr(in) /\ ~Resetting
    BY DEF ir_valid_clr, Control
<1>2. ~Entered(in) /\ ~Rsp(in) /\ ~PcSet(in)
    BY <1>1, Entering, Requests DEF Entered, PcSet, pipe_flush_req_real
<1>3. npc' = npc
    BY EdgeParts DEF Exu
<1>4. ir_valid' /\ ir' = ir /\ ifu_pc' = ifu_pc
    BY <1>1, <1>2, StageStep
<1>5. At(npc)' = At(npc)
    BY <1>3, StageStep DEF At
<1>6. ASSUME At(npc).op = "JR"
      PROVE  x'[At(npc).rs1] = x[At(npc).rs1] /\ ld' # At(npc).rs1
    <2>1. At(npc).rs1 \in Regs /\ At(npc).rs1 # "x0" /\ ld # At(npc).rs1
        BY <1>0, <1>6, Instructions DEF Stage, TypeOK
    <2> QED BY <2>1, Unwritten
<1>7. ASSUME Good', out_flag'
      PROVE  newpend' /\ pc' = Follows(npc)'
    <2>1. Good /\ ~(in.wake /\ mie)
        BY <1>7, Counted
    <2>2. ~Req(in) /\ out_flag
        <3>1. Req(in) => ~out_flag /\ ~(wfi /\ ~in.wake)
            BY <1>1, <1>2, Requests
               DEF ifu_req_valid_pre, wfi_halt_ifu_req, pipe_flush_req_real, Resetting
        <3>2. ~out_flag => wfi
            BY <1>0, <1>1, <2>1 DEF Stage, Good
        <3>3. ~Req(in)
            BY <1>0, <2>1, <3>1, <3>2
        <3> QED BY <1>2, <1>7, <3>3, FetchStep
    <2>3. newpend' /\ pc' = pc /\ pc = Follows(npc)
        BY <1>0, <1>2, <2>1, <2>2, StageStep DEF Stage
    <2>4. Follows(npc)' = Follows(npc)
        BY <1>3, <1>5, <1>6 DEF Follows
    <2> QED BY <2>3, <2>4
<1>8. ~out_flag' => wfi' \/ irq'
    <2>1. ~out_flag' => ~out_flag
        BY <1>2, FetchStep
    <2>2. ~out_flag => wfi \/ irq
        BY <1>0, <1>1 DEF Stage
    <2> QED BY <1>0, <2>1, <2>2, StageStep
<1>9. ir'[1] = npc' /\ (At(npc)'.len = 2 => ir'[2] = Plus(npc', 1))
    BY <1>0, <1>3, <1>4, <1>5 DEF Stage
<1>10. At(npc)'.op = "JR" => ld' # At(npc)'.rs1
    BY <1>5, <1>6
<1> QED BY <1>0, <1>3, <1>4, <1>7, <1>8, <1>9, <1>10 DEF Stage

\* An answer enters: the stage was empty, or its instruction leaves.
LEMMA EnterStage ==
    ASSUME Tame, IfuAssumption, TypeOK, Path, Control, Port,
           NEW in, InputOK(in), Edge(in), Straight(in), Entered(in)
    PROVE  Stage'
<1>1. /\ in.flush = None /\ ~dly_flush /\ ~Resetting
      /\ ~ir_valid \/ in.acc
      /\ Rsp(in) /\ (Req(in) <=> ~(wfi /\ ~in.wake))
    BY Entering DEF Entered, ir_valid_clr, wfi_halt_ifu_req
<1>2. /\ in.acc => ir_valid /\ ~wfi /\ ~irq
      /\ Data /\ Stage
    BY <1>1 DEF InputOK, MayAccept, Straight
<1>3. Good
    BY <1>1, <1>2 DEF Good
<1>4. /\ ifu_rsp_instr[1] = pc /\ ifu_rsp_instr[2] = Plus(pc, 1) /\ Dec = At(pc) /\ out_flag
    BY <1>1, <1>2, <1>3, Answered
\* The instruction that leaves is followed by the one at pc.
<1>5. npc' = pc /\ (in.acc => newpend)
    <2>1. CASE in.acc
        <3>1. newpend /\ pc = Follows(npc) /\ IrOp = At(npc)
            BY <1>2, <1>3, <1>4, <2>1 DEF Stage, IrOp
        <3> QED BY <1>1, <2>1, <3>1, EdgeParts DEF Exu, Follows
    <2>2. CASE ~in.acc
        BY <1>1, <1>2, <2>2, EdgeParts DEF Exu, Stage
    <2> QED BY <2>1, <2>2
<1>6. ifu_pc' = pc
    <2>1. PcSet(in) <=> newpend
        BY <1>1 DEF PcSet, pipe_flush_req_real, ir_valid_clr
    <2> QED BY <1>1, <1>2, <1>5, <2>1, StageStep DEF Stage
<1>7. At(npc)' = At(pc)
    BY <1>5, StageStep DEF At
<1>8. ir_valid' /\ ir'[1] = npc' /\ (At(npc)'.len = 2 => ir'[2] = Plus(npc', 1))
    BY <1>4, <1>5, <1>7, StageStep
<1>9. ASSUME At(pc).op = "JR"
      PROVE  /\ prdt_pc = x'[At(pc).rs1] /\ ld' # At(pc).rs1
    <2>1. At(pc).rs1 \in Regs /\ At(pc).rs1 # "x0"
        BY <1>9, Instructions DEF TypeOK
    <2>2. /\ ld = "x0" /\ prdt_pc = x[At(pc).rs1]
          /\ in.acc => IrOp.rd # At(pc).rs1
        BY <1>2, <1>4, <1>9, JumpReads
    <2> QED BY <2>1, <2>2, Unwritten
<1>10. Req(in) => newpend' /\ pc' = Follows(npc)'
    <2> SUFFICES ASSUME Req(in) PROVE newpend' /\ pc' = Follows(npc)'
        OBVIOUS
    <2>1. newpend' /\ pc' = pc_nxt(in)
        BY StageStep
    <2>2. pc_nxt(in) = IF At(pc).op \in {"J", "JR"} THEN prdt_pc ELSE Plus(pc, At(pc).len)
        BY <1>1, <1>4 DEF pc_nxt, bjp_req, Resetting
    <2>3. At(pc).op = "J" => prdt_pc = Plus(pc, At(pc).off)
        BY <1>4 DEF prdt_pc
    <2> QED BY <1>5, <1>7, <1>9, <2>1, <2>2, <2>3 DEF Follows
<1>11. out_flag' <=> Req(in)
    BY <1>1, FetchStep
<1>12. ~out_flag' => wfi'
    BY <1>1, <1>11, StageStep
<1> QED BY <1>5, <1>6, <1>7, <1>8, <1>9, <1>10, <1>11, <1>12 DEF Stage

\* Nothing enters, and the stage is empty afterwards.
LEMMA LeaveStage ==
    ASSUME IfuAssumption, TypeOK, Path, Control, Stage, NEW in, InputOK(in), Edge(in),
           in.flush = None, ~dly_flush, ~Entered(in), ~ir_valid \/ in.acc
    PROVE  Stage'
<1>1. in.acc => ir_valid /\ ~wfi /\ ~irq /\ ~Resetting
    BY DEF InputOK, MayAccept, Control
<1>2. ~Rsp(in) /\ ~ir_valid' /\ (PcSet(in) <=> newpend)
    BY StageStep DEF Entered, pipe_flush_req_real, PcSet, ir_valid_clr
<1>3. Req(in) => ~out_flag
    BY <1>2, Requests
<1>4. out_flag' <=> Req(in) \/ out_flag
    BY <1>2, FetchStep
<1>5. CASE in.acc
    <2>1. out_flag /\ newpend /\ pc = Follows(npc) /\ IrOp = At(npc)
        BY <1>1, <1>5 DEF Stage, Good, IrOp
    <2>2. npc' = pc
        BY <1>5, <2>1, EdgeParts DEF Exu, Follows
    <2>3. pc' = pc /\ ifu_pc' = pc
        BY <1>2, <1>3, <2>1, StageStep
    <2> QED BY <1>2, <1>4, <2>1, <2>2, <2>3 DEF Stage
<1>6. CASE ~ir_valid
    <2>1. npc' = npc /\ npc = pc
        BY <1>1, <1>6, EdgeParts DEF Exu, Stage
    <2>2. CASE Req(in)
        <3>1. reset_req /\ state = "IDLE" /\ rspbuf = <<>> /\ target = "none" /\ npc = PC_RTVEC
            BY <1>3, <1>6, <2>2, Requests
               DEF Stage, Control, Resetting, ifu_req_valid_pre, pipe_flush_req_real
        <3>2. Dec = At(None)
            BY <3>1 DEF Dec, ifu_rsp_instr, i_ifu_rsp_instr, rsp_instr_sel_leftover,
                        ifu_icb_rsp_instr, rdata
        <3>3. None \notin DOMAIN prog.code
            BY DEF IfuAssumption, TypeOK, Parcels, None
        <3>4. ~bjp_req
            BY <3>2, <3>3 DEF bjp_req, At, Plain
        <3>5. pc' = npc' /\ newpend'
            BY <2>1, <2>2, <3>1, <3>4, StageStep DEF pc_nxt
        <3> QED BY <1>2, <1>4, <2>2, <3>5 DEF Stage
    <2>3. CASE ~Req(in)
        <3>1. pc' = pc /\ (newpend' \/ ifu_pc' = npc')
            BY <1>2, <1>6, <2>1, <2>3, StageStep DEF Stage
        <3>2. ~out_flag' => Resetting'
            BY <1>4, <1>6, <2>3, StageStep DEF Stage, Resetting
        <3> QED BY <1>2, <2>1, <3>1, <3>2 DEF Stage
    <2> QED BY <2>2, <2>3
<1> QED BY <1>5, <1>6

\* The order of instructions, case by case.
LEMMA OrderStep ==
    ASSUME Tame, IfuAssumption, TypeOK, Path, Control, Port,
           NEW in, InputOK(in), Edge(in), Straight(in)
    PROVE  Stage'
<1>1. CASE in.flush # None \/ dly_flush
    BY <1>1, FlushStage
<1>2. CASE in.flush = None /\ ~dly_flush /\ Entered(in)
    BY <1>2, EnterStage
<1>3. CASE in.flush = None /\ ~dly_flush /\ ~Entered(in) /\ (~ir_valid \/ in.acc)
    BY <1>3, LeaveStage DEF Straight
<1>4. CASE in.flush = None /\ ~dly_flush /\ ir_valid /\ ~in.acc
    BY <1>4, StayStage
<1> QED BY <1>1, <1>2, <1>3, <1>4

-----------------------------------------------------------------------------
(* What holds for the programs whose jumps read one register.              *)

IInv == Safe /\ Port /\ (~astray => Data /\ Stage)

\* The execution stage receives the instruction that follows, both halves of it,
\* and its pc is right, for every program whose jumps read one register besides
\* x1, whatever is flushed, loaded and slept in between, until a wake-up without
\* a trap leads the pc astray.
THEOREM OrderKept ==
    ASSUME Tame
    PROVE  Spec => []KeepsOrder
<1>1. Init => IInv
    <2> SUFFICES ASSUME Init PROVE IInv
        OBVIOUS
    <2>1. Safe
        BY InitSafe, IfuAssumption
    <2>2. Data /\ Stage /\ Port
        BY DEF Init, Data, Stage, Port, Resetting, PC_RTVEC
    <2> QED BY <2>1, <2>2 DEF IInv
<1>2. IInv /\ [Next]_vars => IInv'
    <2> SUFFICES ASSUME IInv, [Next]_vars PROVE IInv'
        OBVIOUS
    <2>1. Safe'
        BY SafeStep, IfuAssumption DEF IInv
    <2>2. CASE Next
        <3>1. PICK in : InputOK(in) /\ Edge(in)
            BY <2>2, Environment, IfuAssumption DEF IInv, Safe
        <3>2. Port'
            BY <3>1, PortStep, IfuAssumption DEF IInv, Safe
        <3>3. ASSUME ~astray' PROVE Data' /\ Stage'
            <4>1. in.flush = None =>
                    ~astray /\ ~(in.wake /\ ~mie /\ ~out_flag /\ ~dly_flush)
                BY <3>1, <3>3, EdgeParts DEF Exu
            <4>2. Straight(in)
                BY <4>1 DEF IInv, Straight
            <4>3. Data'
                BY <3>1, <4>2, DataStep, IfuAssumption DEF IInv, Safe
            <4>4. Stage'
                BY <3>1, <4>2, OrderStep, IfuAssumption DEF IInv, Safe
            <4> QED BY <4>3, <4>4
        <3> QED BY <2>1, <3>2, <3>3 DEF IInv
    <2>3. CASE UNCHANGED vars
        <3>1. Data => Data'
            BY <2>3 DEF vars, ifetch, ift2icb, itcm, exu, Data, Good, Fetches, Reads, Held
        <3>2. (Stage => Stage') /\ (Port => Port')
            BY <2>3 DEF vars, ifetch, ift2icb, itcm, exu, Stage, Port, Good,
                        Resetting, Follows, At
        <3>3. astray' = astray
            BY <2>3 DEF vars, exu
        <3> QED BY <2>1, <3>1, <3>2, <3>3 DEF IInv
    <2> QED BY <2>2, <2>3
<1>3. IInv => KeepsOrder
    BY DEF IInv, Stage, KeepsOrder, InOrder, IrOp
<1> QED BY <1>1, <1>2, <1>3, PTL DEF Spec

=============================================================================
