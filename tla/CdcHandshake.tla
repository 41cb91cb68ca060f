----------------------------- MODULE CdcHandshake -----------------------------
(***************************************************************************)
(* sirv_gnrl_cdc_tx and sirv_gnrl_cdc_rx (general/sirv_gnrl_bufs.v): a     *)
(* word crosses between two clocks by a four-phase handshake.  The sender  *)
(* raises its valid with the word, the receiver answers with ready, the    *)
(* valid falls, the ready falls; each side sees the other's wire through a *)
(* synchroniser of SYNC_DP flip-flops (sirv_gnrl_sync).                    *)
(*                                                                         *)
(* The clocks are unrelated: a step is an edge of either, or of both in    *)
(* one instant, and then a flip-flop that samples a wire of the other side *)
(* takes its old or its new value, and a changing word any value.          *)
(***************************************************************************)
EXTENDS Naturals, Sequences

CONSTANTS
  Data,       \* the words of DW bits
  SYNC_DP     \* flip-flops of a synchroniser

ASSUME CdcAssumption == SYNC_DP \in Nat \ {0}

VARIABLES
  \* the sender's clock
  vld_r, dat_r, nrdy_r,
  rdy_sync,      \* u_o_rdy_sync, newest sample first
  rdy_sync_r,    \* o_rdy_sync_r
  \* the receiver's clock
  rdy_r,         \* i_rdy_r
  vld_sync,      \* u_i_vld_sync
  vld_sync_r,    \* i_vld_sync_r
  buf_vld, buf_dat,
  \* history: the last transfer of each client, with a bit that alternates
  inp, out

txVars == <<vld_r, dat_r, nrdy_r, rdy_sync, rdy_sync_r, inp>>
rxVars == <<rdy_r, vld_sync, vld_sync_r, buf_vld, buf_dat, out>>
vars   == <<txVars, rxVars>>

Transfers     == [bit : BOOLEAN, dat : Data]
Another(t, d) == [bit |-> ~t.bit, dat |-> d]

Stages      == 1 .. SYNC_DP
Sync(s, a)  == [i \in Stages |-> IF i = 1 THEN a ELSE s[i - 1]]
-----------------------------------------------------------------------------
(* The sender: in is what its client offers, a word or none.               *)

TxInputs == [i_vld : BOOLEAN, i_dat : Data]

o_rdy_sync  == rdy_sync[SYNC_DP]
o_rdy_nedge_pos == o_rdy_sync /\ ~rdy_sync_r     \* mutant
o_rdy_nedge == ~o_rdy_sync /\ rdy_sync_r
i_rdy_after_vld == ~vld_r     \* mutant
i_rdy       == ~nrdy_r \/ o_rdy_nedge
vld_set(in) == in.i_vld /\ i_rdy
vld_clr_at_once == vld_r /\ nrdy_r     \* mutant
vld_clr     == vld_r /\ o_rdy_sync
vld_nxt(in) == vld_set(in) \/ (vld_r /\ ~vld_clr)

cdc_tx(in, o_rdy_a) ==
  /\ vld_r' = vld_nxt(in)
  /\ dat_r' = IF vld_set(in) THEN in.i_dat ELSE dat_r
  /\ nrdy_r' = (vld_set(in) \/ (nrdy_r /\ ~o_rdy_nedge))
  /\ rdy_sync' = Sync(rdy_sync, o_rdy_a)
  /\ rdy_sync_r' = o_rdy_sync
  /\ inp' = IF vld_set(in) THEN Another(inp, in.i_dat) ELSE inp
-----------------------------------------------------------------------------
(* The receiver: o_rdy is its client's readiness to take the buffered word. *)

i_vld_sync       == vld_sync[SYNC_DP]
i_vld_sync_nedge == ~i_vld_sync /\ vld_sync_r
i_rdy_set_any == i_vld_sync /\ ~rdy_r     \* mutant
i_rdy_set        == ~buf_vld /\ i_vld_sync /\ ~rdy_r
i_rdy_clr_free == i_vld_sync_nedge /\ ~buf_vld     \* mutant
i_rdy_clr        == i_vld_sync_nedge
rdy_nxt          == i_rdy_set \/ (rdy_r /\ ~i_rdy_clr)

\* The buffer loads the sender's word itself, which no synchroniser guards.
cdc_rx(o_rdy, i_vld_a) ==
  /\ rdy_r' = rdy_nxt
  /\ vld_sync' = Sync(vld_sync, i_vld_a)
  /\ vld_sync_r' = i_vld_sync
  /\ buf_vld' = (i_rdy_set \/ (buf_vld /\ ~o_rdy))
  /\ buf_dat' \in IF ~i_rdy_set THEN {buf_dat} ELSE IF dat_r' = dat_r THEN {dat_r} ELSE Data
  /\ out' = IF buf_vld /\ o_rdy THEN Another(out, buf_dat) ELSE out
-----------------------------------------------------------------------------
TxEdge == \E in \in TxInputs : cdc_tx(in, rdy_r) /\ UNCHANGED rxVars
RxEdge(o_rdy) == UNCHANGED txVars /\ cdc_rx(o_rdy, vld_r)

BothEdges(o_rdy) ==
  \E in \in TxInputs : \E a \in {rdy_r, rdy_nxt}, b \in {vld_r, vld_nxt(in)} :
    cdc_tx(in, a) /\ cdc_rx(o_rdy, b)

\* The state that the reset of both sides leaves.
Low == [i \in Stages |-> FALSE]
Init ==
  /\ vld_r = FALSE /\ nrdy_r = FALSE /\ rdy_sync = Low /\ rdy_sync_r = FALSE
  /\ rdy_r = FALSE /\ vld_sync = Low /\ vld_sync_r = FALSE /\ buf_vld = FALSE
  /\ dat_r \in Data /\ buf_dat \in Data /\ inp \in Transfers /\ out \in Transfers

Next == TxEdge \/ \E o_rdy \in BOOLEAN : RxEdge(o_rdy) \/ BothEdges(o_rdy)

Spec == Init /\ [][Next]_vars

\* Both clocks run, and the receiver's client takes a word again and again.
FairSpec ==
  /\ Spec
  /\ WF_vars(TxEdge \/ \E o_rdy \in BOOLEAN : BothEdges(o_rdy))
  /\ WF_vars(RxEdge(TRUE) \/ BothEdges(TRUE))
-----------------------------------------------------------------------------
(* Properties.                                                             *)

TypeOK ==
  /\ {vld_r, nrdy_r, rdy_sync_r, rdy_r, vld_sync_r, buf_vld} \subseteq BOOLEAN
  /\ rdy_sync \in [Stages -> BOOLEAN] /\ vld_sync \in [Stages -> BOOLEAN]
  /\ dat_r \in Data /\ buf_dat \in Data /\ inp \in Transfers /\ out \in Transfers

\* All samples of a synchroniser are b; or the newer ones, from some stage on.
Settled(s, b) == \A i \in Stages : s[i] = b
Turning(s, b) == \A i, j \in Stages : i <= j /\ s[j] = b => s[i] = b

\* In each phase of the handshake, one wire is changing and the synchroniser of
\* the other has settled, with what its side has seen of it
\* (sirv_gnrl_bufs.v:265-295 and 166-186).
Idle   == ~vld_r /\ ~rdy_r /\ ~nrdy_r
Phases ==
  /\ vld_r => nrdy_r
  /\ rdy_r => nrdy_r
  /\ Idle => /\ Settled(vld_sync, FALSE) /\ ~vld_sync_r
             /\ Settled(rdy_sync, FALSE) /\ ~rdy_sync_r
  /\ vld_r /\ ~rdy_r => /\ Turning(vld_sync, TRUE) /\ (vld_sync_r => i_vld_sync)
                        /\ Settled(rdy_sync, FALSE) /\ ~rdy_sync_r
  /\ vld_r /\ rdy_r => /\ Settled(vld_sync, TRUE) /\ vld_sync_r
                       /\ Turning(rdy_sync, TRUE) /\ ~rdy_sync_r
  /\ ~vld_r /\ rdy_r => /\ Turning(vld_sync, FALSE) /\ vld_sync_r
                        /\ Settled(rdy_sync, TRUE) /\ rdy_sync_r
  /\ ~vld_r /\ ~rdy_r /\ nrdy_r => /\ Settled(vld_sync, FALSE) /\ ~vld_sync_r
                                   /\ Turning(rdy_sync, FALSE) /\ rdy_sync_r

\* The four steps that the code lists: valid rises, ready rises, valid falls,
\* ready falls, one at a time, whatever the clocks (sirv_gnrl_bufs.v:149-154).
FourPhase ==
  [][/\ vld_r' # vld_r => vld_r' # rdy_r /\ rdy_r' = rdy_r
     /\ rdy_r' # rdy_r => rdy_r' = vld_r]_vars

\* The word, which crosses without a synchroniser, does not change at the edge
\* that loads it (sirv_gnrl_bufs.v:196-198).
DataStable == [][rdy_r' /\ ~rdy_r => dat_r' = dat_r]_vars

\* Words offered to the channel and not yet taken from it.
waiting == vld_r /\ ~rdy_r
Queue == CASE buf_vld /\ waiting   -> <<buf_dat, dat_r>>
           [] buf_vld /\ ~waiting  -> <<buf_dat>>
           [] ~buf_vld /\ waiting  -> <<dat_r>>
           [] ~buf_vld /\ ~waiting -> <<>>
Channel == INSTANCE Fifo WITH q <- Queue, Depth <- 2

\* The handshake is a queue of two words: none is lost, repeated, reordered or
\* torn, whatever the clocks (sirv_gnrl_bufs.v:142-297).
ImplementsFifo == Channel!Spec

\* The channel never locks up: the sender is ready again and again, so every
\* handshake completes (sirv_gnrl_bufs.v:280-295).
ReadyAgain == []<>i_rdy
=============================================================================
