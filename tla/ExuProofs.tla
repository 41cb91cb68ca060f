------------------------------ MODULE ExuProofs ------------------------------
(***************************************************************************)
(* The execution unit of the E203 for every depth of the OITF, every set   *)
(* of registers and every set of instructions.  The ring of entries that   *)
(* tracks the long instructions never holds more than one: the LSU has one *)
(* command outstanding, and the co-unit shares its port.                   *)
(***************************************************************************)
EXTENDS E203Exu, SequenceTheorems, TLAPS

\* The fetch unit delivers no custom encoding that the co-unit takes and never
\* answers: with one, the OITF entry that it leaves behind breaks the tracking.
Implemented == \A i \in Instr : i.kind # "NICE_BAD"

Pointers == 0 .. 2 * OITF_DEPTH - 1
Valid    == {k \in Slots : vld[k]}

\* Who holds an entry.
HeldByLSU  == IF lsu.src = "agu" THEN {lsu.itag} ELSE {}
HeldByNice == IF nfifo = <<>> THEN {} ELSE {nfifo[1]}

\* The entries in use are those from ret_ptr to alc_ptr, one at most.
Ring ==
  \/ alc = ret /\ Valid = {}
  \/ alc = Inc(ret) /\ Valid = {Ptr(ret)}

\* They are those of the LSU and of the co-unit, and describe what these hold.
Held ==
  /\ Valid = HeldByLSU \cup HeldByNice
  /\ HeldByLSU \cap HeldByNice = {}
  /\ lsu.ins = (IF lsu.src = "agu" THEN oitf[lsu.itag] ELSE NoIns)
  /\ nfifo = <<>> \/ \E k \in Slots : nfifo = <<k>>
  /\ nice = (IF nfifo = <<>> THEN NoIns ELSE oitf[nfifo[1]])
  /\ nfifo # <<>> => nice # NoIns /\ nice.kind \in NiceOps

\* A core that waits for an interrupt started nothing since.
Waiting ==
  /\ wfi_flag => wfi_req /\ oitf_empty
  /\ wfi_req => amo = "IDLE"

IInv == TypeOK /\ Ring /\ Held /\ AmoRunsAlone /\ Waiting

-----------------------------------------------------------------------------
(* Pointers.                                                               *)

\* Ptr drops the wrap flag and Inc carries into it: no other arithmetic is used.
LEMMA Moduli ==
  ASSUME NEW p \in Pointers
  PROVE  /\ Ptr(p) = (IF p < OITF_DEPTH THEN p ELSE p - OITF_DEPTH)
         /\ Inc(p) = (IF p = 2 * OITF_DEPTH - 1 THEN 0 ELSE p + 1)
<1> DEFINE D == OITF_DEPTH
<1>1. D \in Nat /\ D > 0 /\ p \in Nat /\ p < 2 * D
  BY ExuAssumption DEF Pointers
<1> HIDE DEF D
<1>2. \A m \in Nat, x \in Nat : x < m => x % m = x
  OBVIOUS
<1>3. \A m \in Nat \ {0}, x \in Nat : x < m => (x + m) % m = x
  OBVIOUS
<1>4. p % D = (IF p < D THEN p ELSE p - D)
  <2>1. CASE p < D
    BY <2>1, <1>1, <1>2
  <2>2. CASE ~(p < D)
    <3>1. p - D \in Nat /\ p - D < D /\ p = (p - D) + D
      BY <2>2, <1>1
    <3>2. ((p - D) + D) % D = p - D
      BY <3>1, <1>1, <1>3
    <3> QED BY <3>1, <3>2, <2>2, <1>1
  <2> QED BY <2>1, <2>2
<1>5. (p + 1) % (2 * D) = (IF p = 2 * D - 1 THEN 0 ELSE p + 1)
  <2>1. CASE p = 2 * D - 1
    <3>1. p + 1 = 0 + 2 * D /\ 2 * D \in Nat \ {0}
      BY <2>1, <1>1
    <3>2. (0 + 2 * D) % (2 * D) = 0
      BY <3>1, <1>1, <1>3
    <3> QED BY <3>1, <3>2, <2>1
  <2>2. CASE p # 2 * D - 1
    <3>1. p + 1 \in Nat /\ p + 1 < 2 * D /\ 2 * D \in Nat
      BY <2>2, <1>1
    <3> QED BY <3>1, <2>2, <1>2
  <2> QED BY <2>1, <2>2
<1> QED BY <1>4, <1>5 DEF D, Ptr, Inc

\* A pointer's slot is an entry, and an increment moves it.
LEMMA PointerFacts ==
  \A p \in Pointers : Ptr(p) \in Slots /\ Inc(p) \in Pointers /\ Inc(p) # p
  BY ExuAssumption, Moduli DEF Slots, Pointers

-----------------------------------------------------------------------------
(* Types.                                                                  *)

LEMMA InitType == Init => TypeOK
<1> SUFFICES ASSUME Init PROVE TypeOK
  OBVIOUS
<1>1. 0 \in Slots /\ 0 \in Pointers
  BY ExuAssumption DEF Slots, Pointers
<1>2. nfifo \in Seq(Slots) /\ Len(nfifo) <= 4
  BY EmptySeq DEF Init
<1> QED BY <1>1, <1>2 DEF Init, TypeOK, NoCmd, Units, Pointers

\* Every register takes a value of its type at an edge.
LEMMA StepType == ASSUME TypeOK, [Next]_vars PROVE TypeOK'
<1>1. CASE UNCHANGED vars
  BY <1>1 DEF TypeOK, vars, oitfVars, niceVars, wfiVars, Slots
<1>2. ASSUME NEW in \in Inputs, Cycle(in) PROVE TypeOK'
  <2> USE <1>2 DEF TypeOK
  <2>1. in.err \in BOOLEAN
    BY ExuAssumption DEF Inputs
  <2>2. ir' \in Instr \cup {NoIns}
    BY DEF Cycle, U_IR
  <2>3. /\ alc \in Pointers /\ ret \in Pointers
        /\ alc' \in Pointers /\ ret' \in Pointers
        /\ Ptr(alc) \in Slots /\ 0 \in Slots
    <3>1. alc \in Pointers /\ ret \in Pointers
      BY DEF Pointers
    <3>2. 0 \in Slots
      BY ExuAssumption DEF Slots
    <3> QED BY <3>1, <3>2, PointerFacts DEF Cycle, U_OITF
  <2>4. vld' \in [Slots -> BOOLEAN]
    BY DEF Cycle, U_OITF
  <2>5. oitf' \in [Slots -> Instr \cup {NoIns}]
    BY <2>3 DEF Cycle, U_OITF
  <2>6. lsu' \in [src : Units, itag : Slots, ins : Instr \cup {NoIns}]
    BY <2>3 DEF Cycle, U_LSU, NoCmd, Units
  <2>7. amo' \in {"IDLE", "1ST", "AMOALU", "AMORDY", "WAIT2ND", "2ND", "WBCK"}
    BY DEF Cycle, U_AGU, amo_nxt
  <2>8. amo_err' \in BOOLEAN
    BY <2>1 DEF Cycle, U_AGU
  <2>9. nice' \in Instr \cup {NoIns}
    BY DEF Cycle, U_NICE
  <2>10. nfifo' \in Seq(Slots) /\ Len(nfifo') <= 4
    <3> DEFINE popped == IF wbck_sel_nice(in) THEN Tail(nfifo) ELSE nfifo
    <3>1. popped \in Seq(Slots) /\ Len(popped) <= Len(nfifo)
      <4>1. CASE wbck_sel_nice(in)
        <5>1. nfifo # <<>>
          BY <4>1 DEF wbck_sel_nice
        <5>2. Tail(nfifo) \in Seq(Slots) /\ Len(Tail(nfifo)) = Len(nfifo) - 1
          BY <5>1, HeadTailProperties
        <5> QED BY <4>1, <5>2, LenProperties
      <4>2. CASE ~wbck_sel_nice(in)
        BY <4>2, LenProperties
      <4> QED BY <4>1, <4>2
    <3>2. nfifo' = popped \/ (Len(nfifo) < 4 /\ nfifo' = Append(popped, Ptr(alc)))
      BY DEF Cycle, U_NICE
    <3> HIDE DEF popped
    <3>3. CASE nfifo' = popped
      BY <3>1, <3>3, LenProperties
    <3>4. CASE Len(nfifo) < 4 /\ nfifo' = Append(popped, Ptr(alc))
      <4>1. /\ Append(popped, Ptr(alc)) \in Seq(Slots)
            /\ Len(Append(popped, Ptr(alc))) = Len(popped) + 1
        BY <3>1, <2>3, AppendProperties
      <4>2. Len(nfifo) \in Nat /\ Len(popped) \in Nat
        BY <3>1, LenProperties
      <4> QED BY <3>1, <3>4, <4>1, <4>2
    <3> QED BY <3>2, <3>3, <3>4
  <2>11. wfi_req' \in BOOLEAN /\ wfi_flag' \in BOOLEAN
    BY DEF Cycle, U_WFI
  <2>12. halt_ack' \in BOOLEAN
    BY DEF Cycle, U_WFI
  <2>13. mie' \in BOOLEAN
    BY DEF Cycle, U_MIE
  <2> QED BY <2>2, <2>3, <2>4, <2>5, <2>6, <2>7, <2>8, <2>9, <2>10, <2>11, <2>12, <2>13
          DEF Pointers, Units
<1> QED BY <1>1, <1>2 DEF Next

\* Every register keeps a value of its width, with any instructions at all: the
\* pointers wrap, the itag FIFO holds four at most (e203_exu_oitf.v:115).
THEOREM ExuTypeCorrect == Spec => []TypeOK
  BY InitType, StepType, PTL DEF Spec

-----------------------------------------------------------------------------
(* What a cycle does to the long instructions.                             *)

LEMMA InitHolds == Init => IInv
<1> SUFFICES ASSUME Init PROVE IInv
  OBVIOUS
<1>1. Valid = {}
  BY DEF Init, Valid
<1> QED BY <1>1, InitType
        DEF IInv, Init, Ring, Held, HeldByLSU, HeldByNice, AmoRunsAlone, Waiting, NoCmd,
            amo_wait

\* An answer retires the oldest entry, and only its holder can give one; lbuf's
\* last word comes when the co-unit is the only holder, so that it is the oldest.
LEMMA Answers ==
  ASSUME IInv, NEW in \in Inputs
  PROVE  /\ wbck_sel_lsu(in) => lsu.src = "agu" /\ lsu.itag = Ptr(ret) /\ alc # ret
         /\ wbck_sel_nice(in) => nfifo = <<Ptr(ret)>> /\ alc # ret
         /\ ~(wbck_sel_lsu(in) /\ wbck_sel_nice(in))
         /\ nice_rsp_valid(in) /\ nice.kind = "LBUF" => wbck_sel_nice(in)
<1> USE DEF IInv, Held, HeldByLSU, HeldByNice
<1>1. wbck_sel_lsu(in) => lsu.src = "agu" /\ lsu.itag = Ptr(ret) /\ alc # ret
  BY DEF wbck_sel_lsu, wbck_ready4lsu, oitf_empty
<1>2. wbck_sel_nice(in) => nfifo = <<Ptr(ret)>> /\ alc # ret
  BY DEF wbck_sel_nice, oitf_empty
<1>3. ~(wbck_sel_lsu(in) /\ wbck_sel_nice(in))
  BY <1>1, <1>2
<1>4. ASSUME nice_rsp_valid(in), nice.kind = "LBUF" PROVE wbck_sel_nice(in)
  <2>1. lsu.src = "nice" /\ nice # NoIns /\ in.nrsp
    BY <1>4 DEF nice_rsp_valid
  <2>2. PICK k \in Slots : nfifo = <<k>>
    BY <2>1
  <2>3. Valid = {k}
    BY <2>1, <2>2
  <2>4. ret \in Pointers
    BY DEF TypeOK, Pointers
  <2>5. k = Ptr(ret) /\ alc # ret
    BY <2>3, <2>4, PointerFacts DEF Ring
  <2> QED BY <1>4, <2>2, <2>5 DEF wbck_sel_nice, oitf_empty
<1> QED BY <1>1, <1>2, <1>3, <1>4

\* An entry is allocated for a load or store, or for an operation of the
\* co-unit, and what it was handed to is free or answers in that cycle.
LEMMA Dispatch ==
  ASSUME IInv, Implemented, NEW in \in Inputs, disp_oitf_ena(in)
  PROVE  /\ ir \in Instr /\ kind = ir.kind /\ ir.kind \in LoadStores \cup NiceOps
         /\ nice = NoIns /\ nfifo = <<>>
         /\ lsu.src = "agu" => wbck_sel_lsu(in)
         /\ ~wfi_req /\ amo = "IDLE"
<1> USE DEF IInv
<1>1. ir # NoIns /\ ~wfi_req /\ dispatched(in) /\ kind \in LoadStores \cup NiceKinds
  BY DEF disp_oitf_ena, dispatched, i_valid, disp_condition, i_longpipe
<1>2. ir \in Instr /\ kind = ir.kind /\ ir.kind \in LoadStores \cup NiceOps
  BY <1>1 DEF TypeOK, kind, Implemented, NiceKinds, NiceOps
<1>3. kind # "AMO" /\ (kind \in LoadStores => kind \notin NiceKinds)
  BY <1>1 DEF LoadStores, NiceKinds, NiceOps
<1>4. amo = "IDLE"
  BY <1>3 DEF AmoRunsAlone, amo_wait
<1>5. kind \in LoadStores => agu_icb_cmd_ready(in)
  BY <1>1, <1>3 DEF dispatched
<1>6. kind \in NiceOps => nice_req_ready(in)
  BY <1>1, <1>3 DEF dispatched, NiceKinds, NiceOps, LoadStores
<1>7. nice = NoIns /\ lsu_cmd_ready(in)
  BY <1>2, <1>5, <1>6 DEF agu_icb_cmd_ready, nice_mem_holdup, nice_req_ready
<1>8. nfifo = <<>>
  BY <1>7 DEF Held
<1>9. lsu.src = "agu" => wbck_sel_lsu(in)
  BY <1>7 DEF lsu_cmd_ready, rsp_hsked, wbck_sel_lsu
<1> QED BY <1>1, <1>2, <1>4, <1>7, <1>8, <1>9

\* The LSU holds what is dispatched to it until its answer is written back.
LEMMA LsuStep ==
  ASSUME IInv, Implemented, NEW in \in Inputs, U_LSU(in)
  PROVE  /\ disp_oitf_ena(in) /\ kind \in LoadStores =>
              lsu' = [src |-> "agu", itag |-> Ptr(alc), ins |-> ir]
         /\ ~(disp_oitf_ena(in) /\ kind \in LoadStores) =>
              IF lsu.src = "agu" /\ ~wbck_sel_lsu(in) THEN lsu' = lsu
              ELSE lsu'.src # "agu" /\ lsu'.ins = NoIns
<1> USE DEF IInv
<1> DEFINE toNice == nice_icb_cmd_valid(in) /\ lsu_cmd_ready(in)
           toAmo  == agu_icb_cmd_hsked(in) /\ kind = "AMO"
           toAgu  == agu_icb_cmd_hsked(in) /\ kind # "AMO"
<1>1. lsu' = CASE toNice -> [src |-> "nice", itag |-> 0, ins |-> NoIns]
               [] toAmo -> [src |-> "amo", itag |-> 0, ins |-> NoIns]
               [] toAgu -> [src |-> "agu", itag |-> Ptr(alc), ins |-> ir]
               [] OTHER -> IF rsp_hsked(in) THEN NoCmd ELSE lsu
  BY DEF U_LSU
<1>2. ~(toNice /\ toAmo) /\ ~(toNice /\ toAgu) /\ ~(toAmo /\ toAgu)
  BY DEF agu_icb_cmd_hsked, agu_icb_cmd_ready
<1>3. toAgu <=> disp_oitf_ena(in) /\ kind \in LoadStores
  <2>1. kind \in LoadStores =>
          (dispatched(in) <=> i_valid /\ agu_icb_cmd_ready(in) /\ o_ready(in))
    BY DEF dispatched, LoadStores, NiceKinds, NiceOps
  <2>2. toAgu <=> /\ kind \in LoadStores /\ i_valid /\ o_ready(in)
                  /\ agu_icb_cmd_ready(in)
    BY DEF agu_icb_cmd_hsked, agu_icb_cmd_valid, LoadStores
  <2> QED BY <2>1, <2>2 DEF disp_oitf_ena, i_longpipe
<1>4. (toNice \/ toAmo) /\ lsu.src = "agu" => wbck_sel_lsu(in)
  BY DEF agu_icb_cmd_hsked, agu_icb_cmd_ready, lsu_cmd_ready, rsp_hsked, wbck_sel_lsu
<1>5. lsu.src = "agu" => (rsp_hsked(in) <=> wbck_sel_lsu(in))
  BY DEF rsp_hsked, wbck_sel_lsu
<1>6. lsu.src # "agu" => lsu.ins = NoIns
  BY DEF Held
<1> HIDE DEF toNice, toAmo, toAgu
<1>7. CASE toAgu
  BY <1>1, <1>2, <1>3, <1>7
<1>8. CASE toNice \/ toAmo
  <2>1. lsu' \in {[src |-> "nice", itag |-> 0, ins |-> NoIns],
                  [src |-> "amo", itag |-> 0, ins |-> NoIns]}
    BY <1>1, <1>2, <1>8
  <2> QED BY <2>1, <1>2, <1>3, <1>4, <1>8
<1>9. CASE ~(toNice \/ toAmo \/ toAgu)
  <2>1. lsu' = IF rsp_hsked(in) THEN NoCmd ELSE lsu
    BY <1>1, <1>9
  <2> QED BY <2>1, <1>3, <1>5, <1>6, <1>9 DEF NoCmd
<1> QED BY <1>7, <1>8, <1>9

\* The co-unit and its itag FIFO take one operation, and give it up together.
LEMMA NiceStep ==
  ASSUME IInv, Implemented, NEW in \in Inputs, U_NICE(in)
  PROVE  IF disp_oitf_ena(in) /\ kind \in NiceOps
         THEN nice' = ir /\ nfifo' = <<Ptr(alc)>>
         ELSE IF wbck_sel_nice(in) THEN nice' = NoIns /\ nfifo' = <<>>
         ELSE nice' = nice /\ nfifo' = nfifo
<1> USE DEF IInv
<1> DEFINE taken  == nice_req_valid(in) /\ nice_req_ready(in)
           popped == IF wbck_sel_nice(in) THEN Tail(nfifo) ELSE nfifo
<1>1. /\ nice' = IF taken /\ kind # "NICE_BAD" THEN ir
                 ELSE IF nice_done(in) THEN NoIns ELSE nice
      /\ nfifo' = IF taken /\ Len(nfifo) < 4 THEN Append(popped, Ptr(alc)) ELSE popped
  BY DEF U_NICE
<1>2. kind # "NICE_BAD"
  BY DEF kind, TypeOK, Implemented
<1>3. taken <=> disp_oitf_ena(in) /\ kind \in NiceOps
  <2>1. kind \in NiceOps =>
          (dispatched(in) <=> i_valid /\ nice_req_ready(in) /\ o_ready(in))
    BY DEF dispatched, LoadStores, NiceKinds, NiceOps
  <2>2. taken <=> i_valid /\ kind \in NiceOps /\ o_ready(in) /\ nice_req_ready(in)
    BY <1>2 DEF nice_req_valid, NiceKinds
  <2> QED BY <2>1, <2>2 DEF disp_oitf_ena, i_longpipe, NiceKinds
<1>4. nice_done(in) <=> wbck_sel_nice(in)
  BY Answers DEF nice_done
<1> HIDE DEF taken
<1>5. CASE taken
  <2>1. nfifo = <<>>
    BY <1>3, <1>5, Dispatch
  <2>2. ~wbck_sel_nice(in) /\ Len(nfifo) = 0
    BY <2>1 DEF wbck_sel_nice
  <2>3. nfifo' = Append(<<>>, Ptr(alc))
    BY <1>1, <1>5, <2>1, <2>2
  <2>4. nfifo' = <<Ptr(alc)>>
    BY <2>3
  <2> QED BY <1>1, <1>2, <1>3, <1>5, <2>4
<1>6. CASE ~taken /\ wbck_sel_nice(in)
  <2>1. nfifo = <<Ptr(ret)>>
    BY <1>6, Answers
  <2>2. Tail(nfifo) = <<>>
    BY <2>1
  <2> QED BY <1>1, <1>3, <1>4, <1>6, <2>2
<1>7. CASE ~taken /\ ~wbck_sel_nice(in)
  BY <1>1, <1>3, <1>4, <1>7
<1> QED BY <1>5, <1>6, <1>7

-----------------------------------------------------------------------------
(* The invariant is inductive.                                             *)

\* The pointers follow what is dispatched and what is written back.
LEMMA RingStep ==
  ASSUME IInv, Implemented, NEW in \in Inputs, U_OITF(in)
  PROVE  /\ Ring'
         /\ Valid' = (Valid \ (IF oitf_ret_ena(in) THEN {Ptr(ret)} ELSE {}))
                       \cup (IF disp_oitf_ena(in) THEN {Ptr(alc)} ELSE {})
<1> USE DEF IInv
<1> DEFINE A == disp_oitf_ena(in)
           R == oitf_ret_ena(in)
<1>1. /\ alc \in Pointers /\ ret \in Pointers
      /\ Ptr(alc) \in Slots /\ Inc(ret) # ret
  <2>1. alc \in Pointers /\ ret \in Pointers
    BY DEF TypeOK, Pointers
  <2> QED BY <2>1, PointerFacts
<1>2. Valid' = (Valid \ (IF R THEN {Ptr(ret)} ELSE {})) \cup (IF A THEN {Ptr(alc)} ELSE {})
  <2>1. \A k \in Slots :
          vld'[k] <=> (A /\ k = Ptr(alc)) \/ (vld[k] /\ ~(R /\ k = Ptr(ret)))
    BY DEF U_OITF
  <2> QED BY <1>1, <2>1 DEF Valid, Slots
<1>3. alc' = (IF A THEN Inc(alc) ELSE alc) /\ ret' = (IF R THEN Inc(ret) ELSE ret)
  BY DEF U_OITF
<1>4. R => alc # ret
  BY Answers DEF oitf_ret_ena
<1>5. A /\ alc # ret => R
  <2>1. ASSUME A, alc # ret PROVE lsu.src = "agu"
    BY <2>1, Dispatch DEF Ring, Held, HeldByLSU, HeldByNice
  <2> QED BY <2>1, Dispatch DEF oitf_ret_ena
<1> HIDE DEF A, R
<1>6. Ring'
  <2>1. CASE alc = ret
    BY <2>1, <1>1, <1>2, <1>3, <1>4 DEF Ring
  <2>2. CASE alc # ret
    BY <2>2, <1>1, <1>2, <1>3, <1>5 DEF Ring
  <2> QED BY <2>1, <2>2
<1> QED BY <1>2, <1>6 DEF A, R

\* The entries in use stay those of the LSU and of the co-unit.
LEMMA HeldStep ==
  ASSUME IInv, Implemented, NEW in \in Inputs,
         U_OITF(in), U_LSU(in), U_NICE(in)
  PROVE  Held'
<1> USE DEF IInv, HeldByLSU, HeldByNice
<1>1. Valid' = (Valid \ (IF oitf_ret_ena(in) THEN {Ptr(ret)} ELSE {}))
                 \cup (IF disp_oitf_ena(in) THEN {Ptr(alc)} ELSE {})
  BY RingStep
<1>2. /\ oitf' = IF disp_oitf_ena(in) THEN [oitf EXCEPT ![Ptr(alc)] = ir] ELSE oitf
      /\ oitf \in [Slots -> Instr \cup {NoIns}]
      /\ Ptr(alc) \in Slots
  <2>1. alc \in Pointers
    BY DEF TypeOK, Pointers
  <2> QED BY <2>1, PointerFacts DEF U_OITF, TypeOK
<1>3. CASE disp_oitf_ena(in)
  <2>1. /\ ir # NoIns /\ ir.kind \in LoadStores \cup NiceOps /\ kind = ir.kind
        /\ nfifo = <<>> /\ (lsu.src = "agu" => wbck_sel_lsu(in))
    BY <1>3, Dispatch DEF kind, disp_oitf_ena, dispatched, i_valid
  <2>2. Valid' = {Ptr(alc)}
    BY <1>1, <1>3, <2>1, Answers DEF Held, oitf_ret_ena
  <2>3. oitf'[Ptr(alc)] = ir
    BY <1>2, <1>3
  <2>4. CASE kind \in LoadStores
    <3>1. lsu' = [src |-> "agu", itag |-> Ptr(alc), ins |-> ir]
      BY <1>3, <2>4, LsuStep
    <3>2. kind \notin NiceOps
      BY <2>4 DEF LoadStores, NiceOps
    <3>3. ~wbck_sel_nice(in)
      BY <2>1 DEF wbck_sel_nice
    <3>4. nfifo' = <<>> /\ nice' = NoIns
      BY <2>1, <3>2, <3>3, NiceStep DEF Held
    <3> QED BY <2>2, <2>3, <3>1, <3>4 DEF Held
  <2>5. CASE kind \in NiceOps
    <3>1. nice' = ir /\ nfifo' = <<Ptr(alc)>>
      BY <1>3, <2>5, NiceStep
    <3>2. kind \notin LoadStores
      BY <2>5 DEF LoadStores, NiceOps
    <3>3. lsu'.src # "agu" /\ lsu'.ins = NoIns
      BY <2>1, <3>2, LsuStep
    <3> QED BY <1>2, <2>1, <2>2, <2>3, <2>5, <3>1, <3>3 DEF Held
  <2> QED BY <2>1, <2>4, <2>5
<1>4. CASE ~disp_oitf_ena(in)
  <2>1. oitf' = oitf
    BY <1>2, <1>4
  <2>2. IF lsu.src = "agu" /\ ~wbck_sel_lsu(in) THEN lsu' = lsu
        ELSE lsu'.src # "agu" /\ lsu'.ins = NoIns
    BY <1>4, LsuStep
  <2>3. IF wbck_sel_nice(in) THEN nice' = NoIns /\ nfifo' = <<>>
        ELSE nice' = nice /\ nfifo' = nfifo
    BY <1>4, NiceStep
  <2>4. CASE wbck_sel_lsu(in)
    <3>1. ~wbck_sel_nice(in) /\ lsu.src = "agu" /\ lsu.itag = Ptr(ret)
      BY <2>4, Answers
    <3>2. Valid' = Valid \ {lsu.itag}
      BY <1>1, <1>4, <2>4, <3>1 DEF oitf_ret_ena
    <3> QED BY <2>1, <2>2, <2>3, <2>4, <3>1, <3>2 DEF Held
  <2>5. CASE wbck_sel_nice(in)
    <3>1. ~wbck_sel_lsu(in) /\ nfifo = <<Ptr(ret)>>
      BY <2>5, Answers
    <3>2. Valid' = Valid \ {nfifo[1]}
      BY <1>1, <1>4, <2>5, <3>1 DEF oitf_ret_ena
    <3> QED BY <2>1, <2>2, <2>3, <2>5, <3>1, <3>2 DEF Held
  <2>6. CASE ~wbck_sel_lsu(in) /\ ~wbck_sel_nice(in)
    <3>1. Valid' = Valid
      BY <1>1, <1>4, <2>6 DEF oitf_ret_ena
    <3> QED BY <2>1, <2>2, <2>3, <2>6, <3>1 DEF Held
  <2> QED BY <2>4, <2>5, <2>6
<1> QED BY <1>3, <1>4

\* A running AMO is not flushed before its write-back: the OITF is empty, so no
\* long instruction fails, and an interrupt waits for it.
LEMMA AmoUnflushed ==
  ASSUME IInv, NEW in \in Inputs, amo_wait
  PROVE  /\ ~longp_need_flush(in) /\ ~irq_req(in)
         /\ amo # "WBCK" => ~pipe_flush_req(in)
<1>1. oitf_empty /\ kind = "AMO"
  BY DEF IInv, AmoRunsAlone
<1>2. ~longp_need_flush(in) /\ ~irq_req(in)
  BY <1>1 DEF longp_need_flush, wbck_sel_lsu, wbck_ready4lsu, irq_req
<1>3. ASSUME amo # "WBCK" PROVE ~pipe_flush_req(in)
  <2>1. ~o_valid(in)
    BY <1>1, <1>3 DEF o_valid, LoadStores, NiceKinds, NiceOps
  <2> QED BY <1>2, <2>1
          DEF pipe_flush_req, excpirq_flush_req, irq_flush_req, alu_excp_flush_req,
              brchmis_flush_req, cmt_valid
<1> QED BY <1>2, <1>3

\* Nothing is written back while the OITF is empty.
LEMMA EmptyStep ==
  ASSUME IInv, NEW in \in Inputs, U_OITF(in), oitf_empty, ~disp_oitf_ena(in)
  PROVE  oitf_empty'
<1>1. ~oitf_ret_ena(in)
  BY DEF oitf_ret_ena, wbck_sel_lsu, wbck_sel_nice, wbck_ready4lsu
<1> QED BY <1>1 DEF U_OITF, oitf_empty

LEMMA AmoStep ==
  ASSUME IInv, Implemented, NEW in \in Inputs, Cycle(in)
  PROVE  AmoRunsAlone'
<1> SUFFICES ASSUME amo' # "IDLE"
             PROVE  /\ oitf_empty' /\ nice' = NoIns /\ kind' = "AMO"
                    /\ lsu'.src \in {"none", "amo"}
  BY DEF AmoRunsAlone, amo_wait
<1> USE DEF IInv, Cycle
<1>1. ~pipe_flush_req(in) /\ amo' = amo_nxt(in)
  BY DEF U_AGU
<1>2. kind = "AMO" /\ oitf_empty
  <2>1. CASE amo = "IDLE"
    BY <1>1, <2>1 DEF amo_nxt, state_idle_exit_ena
  <2>2. CASE amo # "IDLE"
    BY <2>2 DEF AmoRunsAlone, amo_wait
  <2> QED BY <2>1, <2>2
<1>3. ir # NoIns
  BY <1>2 DEF kind
<1>4. ~disp_oitf_ena(in)
  BY <1>2 DEF disp_oitf_ena, i_longpipe, LoadStores, NiceKinds, NiceOps
<1>5. oitf_empty'
  BY <1>2, <1>4, EmptyStep
<1>6. nfifo = <<>> /\ nice = NoIns /\ lsu.src # "agu"
  <2>1. ret \in Pointers
    BY DEF TypeOK, Pointers
  <2>2. Valid = {}
    BY <1>2, <2>1, PointerFacts DEF Ring, oitf_empty
  <2> QED BY <2>2 DEF Held, HeldByLSU, HeldByNice
<1>7. nice' = NoIns
  BY <1>4, <1>6, NiceStep
<1>8. ~dispatched(in)
  <2>1. dispatched(in) => amo = "WBCK" /\ o_ready(in)
    BY <1>1, <1>2 DEF dispatched, LoadStores, NiceKinds, NiceOps
  <2>2. ~(amo = "WBCK" /\ o_ready(in))
    BY <1>1 DEF amo_nxt
  <2> QED BY <2>1, <2>2
<1>9. ir' = ir
  BY <1>1, <1>3, <1>8 DEF U_IR
<1>10. kind' = "AMO"
  BY <1>2, <1>9 DEF kind
<1>11. ~nice_icb_cmd_valid(in)
  BY <1>2, <1>6 DEF nice_icb_cmd_valid, NiceOps
<1>12. lsu'.src \in {"none", "amo"}
  <2>1. CASE amo = "IDLE"
    <3>1. agu_icb_cmd_hsked(in)
      BY <1>1, <2>1 DEF amo_nxt, state_idle_exit_ena
    <3>2. lsu' = [src |-> "amo", itag |-> 0, ins |-> NoIns]
      BY <1>2, <1>11, <3>1 DEF U_LSU
    <3> QED BY <3>2
  <2>2. CASE amo # "IDLE"
    <3>1. lsu.src \in {"none", "amo"}
      BY <2>2 DEF AmoRunsAlone, amo_wait
    <3>2. lsu' \in {[src |-> "amo", itag |-> 0, ins |-> NoIns], NoCmd, lsu}
      BY <1>2, <1>11 DEF U_LSU
    <3> QED BY <3>1, <3>2 DEF NoCmd
  <2> QED BY <2>1, <2>2
<1> QED BY <1>5, <1>7, <1>10, <1>12

LEMMA WaitingStep ==
  ASSUME IInv, NEW in \in Inputs, Cycle(in)
  PROVE  Waiting'
<1> USE DEF IInv, Cycle, Waiting
<1>1. wfi_req => ~i_valid
  BY DEF i_valid, disp_condition
<1>2. ASSUME wfi_req' PROVE amo' = "IDLE"
  <2>1. wfi_req \/ kind = "WFI"
    BY <1>2 DEF U_WFI
  <2>2. amo = "IDLE"
    BY <2>1 DEF AmoRunsAlone, amo_wait
  <2>3. ~state_idle_exit_ena(in)
    BY <1>1, <2>1, <2>2
       DEF state_idle_exit_ena, agu_icb_cmd_hsked, agu_icb_cmd_valid, LoadStores
  <2> QED BY <2>2, <2>3 DEF U_AGU, amo_nxt
<1>3. ASSUME wfi_flag' PROVE wfi_req' /\ oitf_empty'
  <2>1. wfi_req /\ oitf_empty /\ ~wfi_clr(in)
    BY <1>3 DEF U_WFI, wfi_halt_ifu_req, wfi_halt_exu_ack
  <2>2. wfi_req'
    BY <2>1 DEF U_WFI
  <2>3. ~disp_oitf_ena(in)
    BY <1>1, <2>1 DEF disp_oitf_ena, dispatched
  <2> QED BY <2>1, <2>2, <2>3, EmptyStep
<1> QED BY <1>2, <1>3

LEMMA StepHolds == ASSUME Implemented, IInv, [Next]_vars PROVE IInv'
<1>1. CASE UNCHANGED vars
  BY <1>1 DEF vars, oitfVars, niceVars, wfiVars, IInv, TypeOK, Ring, Held, Valid, HeldByLSU,
              HeldByNice, AmoRunsAlone, Waiting, amo_wait, oitf_empty, kind
<1>2. ASSUME NEW in \in Inputs, Cycle(in) PROVE IInv'
  <2>1. TypeOK'
    BY <1>2, StepType DEF IInv, Next
  <2> QED BY <1>2, <2>1, RingStep, HeldStep, AmoStep, WaitingStep DEF Cycle, IInv
<1> QED BY <1>1, <1>2 DEF Next

LEMMA Invariant == ASSUME Implemented PROVE Spec => []IInv
<1>1. Init => IInv
  BY InitHolds
<1>2. IInv /\ [Next]_vars => IInv'
  BY StepHolds
<1> QED BY <1>1, <1>2, PTL DEF Spec

-----------------------------------------------------------------------------
(* What follows.                                                           *)

\* The pointers count what the units hold.
LEMMA Counting ==
  ASSUME IInv
  PROVE  /\ alc = ret => Count = 0 /\ Window = {} /\ Valid = {}
         /\ alc # ret => Count = 1 /\ Window = {Ptr(ret)} /\ Valid = {Ptr(ret)}
<1> USE DEF IInv
<1>1. /\ alc \in Pointers /\ ret \in Pointers /\ Ptr(ret) \in Slots
      /\ Inc(ret) # ret /\ OITF_DEPTH \in Nat \ {0}
      /\ Inc(ret) = (IF ret = 2 * OITF_DEPTH - 1 THEN 0 ELSE ret + 1)
  <2>1. alc \in Pointers /\ ret \in Pointers
    BY DEF TypeOK, Pointers
  <2> QED BY <2>1, PointerFacts, Moduli, ExuAssumption
<1>2. ASSUME alc = ret PROVE Count = 0 /\ Window = {} /\ Valid = {}
  <2>1. alc - ret = 0
    BY <1>1, <1>2 DEF Pointers
  <2>2. Count = 0
    BY <1>1, <2>1 DEF Count
  <2>3. Window = {}
    BY <2>2 DEF Window
  <2> QED BY <1>1, <1>2, <2>2, <2>3 DEF Ring
<1>3. ASSUME alc # ret PROVE Count = 1 /\ Window = {Ptr(ret)} /\ Valid = {Ptr(ret)}
  <2>1. alc = Inc(ret) /\ Valid = {Ptr(ret)}
    BY <1>3 DEF Ring
  <2>2. Count = 1
    <3>1. alc - ret = 1 \/ alc - ret = 1 - 2 * OITF_DEPTH
      BY <1>1, <2>1 DEF Pointers
    <3>2. ASSUME NEW m \in Nat, m >= 2 PROVE 1 % m = 1 /\ (1 - m) % m = 1
      BY <3>2
    <3> QED BY <1>1, <3>1, <3>2 DEF Count
  <2>3. Window = {Ptr(ret)}
    <3>1. \A i \in Int : i \in 0 .. Count - 1 <=> i = 0
      BY <2>2
    <3>2. Ptr(ret + 0) = Ptr(ret)
      BY <1>1 DEF Pointers
    <3> QED BY <3>1, <3>2 DEF Window
  <2> QED BY <2>1, <2>2, <2>3
<1> QED BY <1>2, <1>3

\* The OITF tracks exactly what the LSU and the co-unit hold, for every depth
\* (e203_exu_oitf.v:115, e203_exu_disp.v:223).
THEOREM TrackingHolds == ASSUME Implemented PROVE Spec => []TrackInv
<1>1. IInv => TrackInv
  <2> SUFFICES ASSUME IInv PROVE TrackInv
    OBVIOUS
  <2> USE DEF IInv, HeldByLSU, HeldByNice
  <2>1. OITF_DEPTH \in Nat \ {0}
    BY ExuAssumption
  <2>2. Count <= OITF_DEPTH /\ \A k \in Slots : vld[k] <=> k \in Window
    BY <2>1, Counting DEF Valid
  <2>3. Count = InLSU + Len(nfifo)
    <3>1. CASE alc = ret
      <4>1. lsu.src # "agu" /\ nfifo = <<>>
        BY <3>1, Counting DEF Held
      <4> QED BY <3>1, <4>1, Counting DEF InLSU
    <3>2. CASE alc # ret
      <4>1. \/ lsu.src = "agu" /\ nfifo = <<>>
            \/ lsu.src # "agu" /\ \E k \in Slots : nfifo = <<k>>
        BY <3>2, Counting DEF Held
      <4>2. \/ lsu.src = "agu" /\ Len(nfifo) = 0
            \/ lsu.src # "agu" /\ Len(nfifo) = 1
        BY <4>1
      <4> QED BY <3>2, <4>2, Counting DEF InLSU
    <3> QED BY <3>1, <3>2
  <2>4. lsu.src = "agu" => vld[lsu.itag] /\ oitf[lsu.itag] = lsu.ins
    BY DEF Held, Valid
  <2>5. nice # NoIns <=> nfifo # <<>>
    BY DEF Held
  <2>6. ASSUME nice # NoIns
        PROVE  /\ vld[Head(nfifo)] /\ oitf[Head(nfifo)] = nice
               /\ lsu.src = "agu" => lsu.itag # Head(nfifo)
    <3>1. PICK k \in Slots : nfifo = <<k>>
      BY <2>5, <2>6 DEF Held
    <3>2. Head(nfifo) = k /\ nfifo[1] = k
      BY <3>1
    <3>3. k \in Valid /\ oitf[k] = nice /\ (lsu.src = "agu" => lsu.itag # k)
      BY <3>1 DEF Held
    <3> QED BY <3>2, <3>3 DEF Valid
  <2> QED BY <2>2, <2>3, <2>4, <2>5, <2>6 DEF TrackInv
<1> QED BY <1>1, Invariant, PTL

\* A dispatched instruction neither reads nor writes what a unit will write: the
\* match of the OITF is enough (e203_exu_disp.v:223).
THEOREM DispatchIsSafe == ASSUME Implemented PROVE Spec => []NoHazard
<1>1. IInv => NoHazard
  <2> SUFFICES ASSUME IInv, i_valid, NEW p \in {lsu.ins, nice} \ {NoIns}, p.rd # NoReg
               PROVE  p.rd \notin {ir.rs1, ir.rs2, ir.rd}
    BY DEF NoHazard
  <2> USE DEF IInv, HeldByLSU, HeldByNice
  <2>1. PICK k \in Valid : oitf[k] = p
    <3>1. CASE p = lsu.ins
      BY <3>1 DEF Held
    <3>2. CASE p = nice
      BY <3>2 DEF Held
    <3> QED BY <3>1, <3>2
  <2>2. ~dep
    BY DEF i_valid, disp_condition
  <2> QED BY <2>1, <2>2 DEF dep, oitfrd_match, Valid
<1> QED BY <1>1, Invariant, PTL

\* The write-back takes lbuf's answer in the cycle in which it comes, although
\* lbuf does not wait for it (e203_exu_longpwbck.v:95).
THEOREM AnswersTaken == ASSUME Implemented PROVE Spec => []AnswerNotLost
<1>1. IInv => AnswerNotLost
  BY Answers DEF AnswerNotLost
<1> QED BY <1>1, Invariant, PTL

\* The core sleeps only when nothing is outstanding (e203_exu_excp.v:143-164).
THEOREM SleepHolds == ASSUME Implemented PROVE Spec => []SleepIsQuiet
<1>1. IInv => SleepIsQuiet
  <2> SUFFICES ASSUME IInv, wfi_flag
               PROVE  Count = 0 /\ nice = NoIns /\ amo = "IDLE" /\ lsu.src # "agu"
    BY DEF SleepIsQuiet
  <2>1. amo = "IDLE" /\ alc = ret
    BY DEF IInv, Waiting, oitf_empty
  <2>2. Count = 0 /\ Valid = {}
    BY <2>1, Counting
  <2> QED BY <2>1, <2>2 DEF IInv, Held, HeldByLSU, HeldByNice
<1> QED BY <1>1, Invariant, PTL

\* While the AMO runs it is alone: every answer is its own
\* (e203_exu_alu_lsuagu.v:297).
THEOREM AmoAlone == ASSUME Implemented PROVE Spec => []AmoRunsAlone
<1>1. IInv => AmoRunsAlone
  BY DEF IInv
<1> QED BY <1>1, Invariant, PTL

\* No trap cuts an AMO between its read and its write (e203_exu_excp.v:230).
THEOREM AmoUncut == ASSUME Implemented PROVE Spec => AmoNotKilled
<1>1. IInv /\ [Next]_vars => [amo_wait /\ amo # "WBCK" => amo' # "IDLE"]_vars
  <2> SUFFICES ASSUME IInv, NEW in \in Inputs, Cycle(in), amo_wait, amo # "WBCK"
               PROVE  amo' # "IDLE"
    BY DEF Next
  <2>1. amo' = amo_nxt(in)
    BY AmoUnflushed DEF Cycle, U_AGU
  <2> QED BY <2>1 DEF amo_nxt, amo_wait, IInv, TypeOK
<1> QED BY <1>1, Invariant, PTL DEF Spec, AmoNotKilled

\* What a long-pipe error or an interrupt overrides has no effect
\* (e203_exu_excp.v:230).
THEOREM OverrideHolds == ASSUME Implemented PROVE Spec => []OverriddenHasNoEffect
<1>1. IInv => OverriddenHasNoEffect
  <2> SUFFICES ASSUME IInv, NEW in \in Inputs, longp_need_flush(in) \/ irq_flush_req(in)
               PROVE  /\ ~agu_icb_cmd_hsked(in)
                      /\ ~(nice_req_valid(in) /\ nice_req_ready(in))
                      /\ ~cmt_ena(in)
    BY DEF OverriddenHasNoEffect
  <2>1. ~cmt_ready(in) /\ ~o_ready(in)
    BY DEF cmt_ready, o_ready, irq_flush_req
  <2>2. ~amo_wait
    BY AmoUnflushed DEF irq_flush_req
  <2> QED BY <2>1, <2>2
          DEF agu_icb_cmd_hsked, agu_icb_cmd_valid, nice_req_valid, cmt_ena, amo_wait
<1> QED BY <1>1, Invariant, PTL

\* A second NICE request waits for the first (core.rst): only an encoding that
\* the co-unit does not implement breaks this.
THEOREM OneNice == ASSUME Implemented PROVE Spec => []OneNiceAtATime
<1>1. IInv => OneNiceAtATime
  <2> SUFFICES ASSUME IInv PROVE Len(nfifo) <= 1
    BY DEF OneNiceAtATime
  <2>1. nfifo = <<>> \/ \E k \in Slots : nfifo = <<k>>
    BY DEF IInv, Held
  <2>2. CASE nfifo = <<>>
    BY <2>2
  <2>3. ASSUME NEW k \in Slots, nfifo = <<k>> PROVE Len(nfifo) <= 1
    BY <2>3
  <2> QED BY <2>1, <2>2, <2>3
<1> QED BY <1>1, Invariant, PTL

\* The assertion CHECK_1HOT_FLUSH_HALT holds if no bus answers with an error
\* (e203_exu_commit.v:333-338).
THEOREM HaltOrFlush ==
  ASSUME Implemented, BusErr = {FALSE} PROVE Spec => []HaltFlushOneHot
<1>1. IInv => HaltFlushOneHot
  <2> SUFFICES ASSUME IInv, NEW in \in Inputs, wfi_halt_ifu_req(in)
               PROVE  ~pipe_flush_req(in)
    BY DEF HaltFlushOneHot
  <2>1. wfi_req /\ ~in.irq /\ ~in.err /\ amo = "IDLE"
    BY DEF wfi_halt_ifu_req, Inputs, IInv, Waiting
  <2>2. ~longp_need_flush(in) /\ ~irq_flush_req(in)
    BY <2>1 DEF longp_need_flush, irq_flush_req, irq_req
  <2>3. ~o_valid(in)
    BY <2>1 DEF o_valid, i_valid, disp_condition, LoadStores, NiceKinds, NiceOps
  <2> QED BY <2>2, <2>3
          DEF pipe_flush_req, excpirq_flush_req, alu_excp_flush_req, brchmis_flush_req,
              cmt_valid
<1> QED BY <1>1, Invariant, PTL

=============================================================================
