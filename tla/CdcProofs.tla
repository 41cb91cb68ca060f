------------------------------ MODULE CdcProofs ------------------------------
(***************************************************************************)
(* Proofs about CdcHandshake, for every set of words and every depth of    *)
(* the synchronisers.                                                      *)
(***************************************************************************)
EXTENDS CdcHandshake, SequenceTheorems, TLAPS

Bits == [Stages -> BOOLEAN]

\* A synchroniser after a sample (sirv_gnrl_sync) keeps its shape: a settled one
\* starts to turn, a turning one goes on, and one that has turned up to its last
\* stage is settled.
LEMMA SyncShape ==
  ASSUME NEW s \in Bits, NEW a \in BOOLEAN
  PROVE  /\ Sync(s, a) \in Bits
         /\ Settled(s, TRUE) /\ a => Settled(Sync(s, a), TRUE)
         /\ Settled(s, FALSE) /\ ~a => Settled(Sync(s, a), FALSE)
         /\ Turning(s, TRUE) /\ a => Turning(Sync(s, a), TRUE)
         /\ Turning(s, FALSE) /\ ~a => Turning(Sync(s, a), FALSE)
         /\ Settled(s, TRUE) => Turning(Sync(s, a), FALSE) /\ s[SYNC_DP] /\ Turning(s, TRUE) /\ Turning(s, FALSE)
         /\ Settled(s, FALSE) => Turning(Sync(s, a), TRUE) /\ ~s[SYNC_DP] /\ Turning(s, FALSE) /\ Turning(s, TRUE)
         /\ Turning(s, TRUE) /\ s[SYNC_DP] => Settled(s, TRUE)
         /\ Turning(s, FALSE) /\ ~s[SYNC_DP] => Settled(s, FALSE)
<1>1. SYNC_DP \in Stages /\ \A i \in Stages : i # 1 => i - 1 \in Stages
  BY CdcAssumption DEF Stages
<1>2. Sync(s, a) \in Bits
  BY <1>1 DEF Sync, Bits
<1>3. Settled(s, a) => Settled(Sync(s, a), a)
  BY <1>1 DEF Sync, Settled
<1>4. Turning(s, a) => Turning(Sync(s, a), a)
  <2> SUFFICES ASSUME Turning(s, a), NEW i \in Stages, NEW j \in Stages, i <= j, Sync(s, a)[j] = a
               PROVE  Sync(s, a)[i] = a
    BY DEF Turning
  <2>1. CASE i = 1
    BY <2>1 DEF Sync
  <2>2. CASE i # 1
    <3>1. i - 1 \in Stages /\ j - 1 \in Stages /\ i - 1 <= j - 1 /\ j # 1
      BY <2>2, CdcAssumption DEF Stages
    <3>2. s[j - 1] = a
      BY <3>1 DEF Sync
    <3> QED BY <2>2, <3>1, <3>2 DEF Sync, Turning
  <2> QED BY <2>1, <2>2
<1>5. ASSUME NEW b \in BOOLEAN, Settled(s, b)
      PROVE  Turning(Sync(s, a), ~b) /\ s[SYNC_DP] = b /\ Turning(s, b) /\ Turning(s, ~b)
  <2>1. Turning(s, b) /\ Turning(s, ~b) /\ s[SYNC_DP] = b
    BY <1>1, <1>5 DEF Settled, Turning
  <2>2. ASSUME NEW i \in Stages, NEW j \in Stages, i <= j, Sync(s, a)[j] = ~b
        PROVE  Sync(s, a)[i] = ~b
    <3>1. j = 1
      BY <1>1, <1>5, <2>2 DEF Sync, Settled
    <3>2. i = j
      BY <2>2, <3>1, CdcAssumption DEF Stages
    <3> QED BY <2>2, <3>2
  <2> QED BY <2>1, <2>2 DEF Turning
<1>6. ASSUME NEW b \in BOOLEAN, Turning(s, b), s[SYNC_DP] = b
      PROVE  Settled(s, b)
  BY <1>1, <1>6, CdcAssumption DEF Settled, Turning, Stages
<1>7. s[SYNC_DP] \in BOOLEAN
  BY <1>1 DEF Bits
<1>8. Settled(s, TRUE) => Turning(Sync(s, a), FALSE) /\ s[SYNC_DP] /\ Turning(s, TRUE) /\ Turning(s, FALSE)
  BY <1>5
<1>9. Settled(s, FALSE) => Turning(Sync(s, a), TRUE) /\ ~s[SYNC_DP] /\ Turning(s, FALSE) /\ Turning(s, TRUE)
  BY <1>5
<1>10. Turning(s, TRUE) /\ s[SYNC_DP] => Settled(s, TRUE)
  BY <1>6, <1>7
<1>11. Turning(s, FALSE) /\ ~s[SYNC_DP] => Settled(s, FALSE)
  BY <1>6, <1>7
<1>12. /\ Settled(s, TRUE) /\ a => Settled(Sync(s, a), TRUE)
       /\ Turning(s, TRUE) /\ a => Turning(Sync(s, a), TRUE)
  <2>1. CASE a = TRUE
    BY <1>3, <1>4, <2>1
  <2> QED BY <2>1
<1>13. /\ Settled(s, FALSE) /\ ~a => Settled(Sync(s, a), FALSE)
       /\ Turning(s, FALSE) /\ ~a => Turning(Sync(s, a), FALSE)
  <2>1. CASE a = FALSE
    BY <1>3, <1>4, <2>1
  <2> QED BY <2>1
<1> QED BY <1>2, <1>8, <1>9, <1>10, <1>11, <1>12, <1>13

-----------------------------------------------------------------------------
(* The phases of the handshake.                                            *)

\* An edge of the sender, of the receiver or of both, with the samples a and b
\* that the synchronisers take.
Tx(in, a)      == cdc_tx(in, a) /\ a = rdy_r /\ UNCHANGED rxVars
Rx(o, b)       == cdc_rx(o, b) /\ b = vld_r /\ UNCHANGED txVars
Both(in, a, o, b) ==
  cdc_tx(in, a) /\ cdc_rx(o, b) /\ a \in {rdy_r, rdy_nxt} /\ b \in {vld_r, vld_nxt(in)}
AnEdge(in, a, o, b) == Tx(in, a) \/ Rx(o, b) \/ Both(in, a, o, b)

\* Every step of Next is an edge.
LEMMA NextIsEdge ==
  ASSUME TypeOK, Next
  PROVE  \E in \in TxInputs, a, o, b \in BOOLEAN : AnEdge(in, a, o, b)
<1>0. /\ vld_r \in BOOLEAN /\ rdy_r \in BOOLEAN /\ dat_r \in Data
      /\ rdy_nxt \in BOOLEAN /\ \A in \in TxInputs : vld_nxt(in) \in BOOLEAN
  BY DEF TypeOK, rdy_nxt, vld_nxt
<1>1. ASSUME NEW in \in TxInputs, cdc_tx(in, rdy_r), UNCHANGED rxVars
      PROVE  AnEdge(in, rdy_r, TRUE, TRUE)
  BY <1>1 DEF AnEdge, Tx
<1>2. ASSUME NEW o \in BOOLEAN, cdc_rx(o, vld_r), UNCHANGED txVars
      PROVE  \E in \in TxInputs : AnEdge(in, TRUE, o, vld_r)
  <2>1. [i_vld |-> FALSE, i_dat |-> dat_r] \in TxInputs
    BY <1>0 DEF TxInputs
  <2>2. AnEdge([i_vld |-> FALSE, i_dat |-> dat_r], TRUE, o, vld_r)
    BY <1>2 DEF AnEdge, Rx
  <2> QED BY <2>1, <2>2
<1>3. ASSUME NEW in \in TxInputs, NEW o \in BOOLEAN,
             NEW a \in {rdy_r, rdy_nxt}, NEW b \in {vld_r, vld_nxt(in)},
             cdc_tx(in, a), cdc_rx(o, b)
      PROVE  AnEdge(in, a, o, b) /\ a \in BOOLEAN /\ b \in BOOLEAN
  BY <1>0, <1>3 DEF AnEdge, Both
<1>4. CASE TxEdge
  BY <1>0, <1>1, <1>4 DEF TxEdge
<1>5. ASSUME NEW o \in BOOLEAN, RxEdge(o)
      PROVE  \E in \in TxInputs, a, o2, b \in BOOLEAN : AnEdge(in, a, o2, b)
  BY <1>0, <1>2, <1>5 DEF RxEdge
<1>6. ASSUME NEW o \in BOOLEAN, BothEdges(o)
      PROVE  \E in \in TxInputs, a, o2, b \in BOOLEAN : AnEdge(in, a, o2, b)
  BY <1>3, <1>6 DEF BothEdges
<1> QED BY <1>4, <1>5, <1>6 DEF Next

\* An edge keeps every register within its type.
LEMMA EdgeType ==
  ASSUME TypeOK, NEW in \in TxInputs, NEW a \in BOOLEAN, NEW o \in BOOLEAN, NEW b \in BOOLEAN,
         AnEdge(in, a, o, b)
  PROVE  TypeOK'
<1>1. rdy_sync \in Bits /\ vld_sync \in Bits
  BY DEF TypeOK, Bits
<1>2. Sync(rdy_sync, a) \in [Stages -> BOOLEAN] /\ Sync(vld_sync, b) \in [Stages -> BOOLEAN]
  BY <1>1, SyncShape DEF Bits
<1>3. o_rdy_sync \in BOOLEAN /\ i_vld_sync \in BOOLEAN
  BY CdcAssumption DEF TypeOK, o_rdy_sync, i_vld_sync, Stages
<1>4. in.i_dat \in Data
  BY DEF TxInputs
<1>5. ASSUME NEW t \in Transfers, NEW d \in Data
      PROVE  Another(t, d) \in Transfers
  BY DEF Another, Transfers
<1>6. ASSUME cdc_tx(in, a)
      PROVE  /\ {vld_r', nrdy_r', rdy_sync_r'} \subseteq BOOLEAN
             /\ rdy_sync' \in [Stages -> BOOLEAN] /\ dat_r' \in Data /\ inp' \in Transfers
  BY <1>2, <1>3, <1>4, <1>5, <1>6 DEF TypeOK, cdc_tx, vld_nxt
<1>7. ASSUME cdc_rx(o, b)
      PROVE  /\ {rdy_r', vld_sync_r', buf_vld'} \subseteq BOOLEAN
             /\ vld_sync' \in [Stages -> BOOLEAN] /\ buf_dat' \in Data /\ out' \in Transfers
  BY <1>2, <1>3, <1>5, <1>7 DEF TypeOK, cdc_rx, rdy_nxt
<1>8. CASE Tx(in, a)
  BY <1>6, <1>8 DEF TypeOK, Tx, rxVars
<1>9. CASE Rx(o, b)
  BY <1>7, <1>9 DEF TypeOK, Rx, txVars
<1>10. CASE Both(in, a, o, b)
  BY <1>6, <1>7, <1>10 DEF TypeOK, Both
<1> QED BY <1>8, <1>9, <1>10 DEF AnEdge

\* An edge leads from each phase to itself or to the next one.
LEMMA EdgePhases ==
  ASSUME TypeOK, Phases, NEW in \in TxInputs,
         NEW a \in BOOLEAN, NEW o \in BOOLEAN, NEW b \in BOOLEAN, AnEdge(in, a, o, b)
  PROVE  Phases'
<1> DEFINE rs == Sync(rdy_sync, a)
           vs == Sync(vld_sync, b)
<1>1. rdy_sync \in Bits /\ vld_sync \in Bits
  BY DEF TypeOK, Bits
<1>2. /\ Settled(rdy_sync, TRUE) /\ a => Settled(rs, TRUE)
      /\ Settled(rdy_sync, FALSE) /\ ~a => Settled(rs, FALSE)
      /\ Turning(rdy_sync, TRUE) /\ a => Turning(rs, TRUE)
      /\ Turning(rdy_sync, FALSE) /\ ~a => Turning(rs, FALSE)
      /\ Settled(rdy_sync, TRUE) =>
           Turning(rs, FALSE) /\ o_rdy_sync /\ Turning(rdy_sync, TRUE) /\ Turning(rdy_sync, FALSE)
      /\ Settled(rdy_sync, FALSE) =>
           Turning(rs, TRUE) /\ ~o_rdy_sync /\ Turning(rdy_sync, FALSE) /\ Turning(rdy_sync, TRUE)
      /\ Turning(rdy_sync, TRUE) /\ o_rdy_sync => Settled(rdy_sync, TRUE)
      /\ Turning(rdy_sync, FALSE) /\ ~o_rdy_sync => Settled(rdy_sync, FALSE)
  BY <1>1, SyncShape DEF o_rdy_sync
<1>3. /\ Settled(vld_sync, TRUE) /\ b => Settled(vs, TRUE)
      /\ Settled(vld_sync, FALSE) /\ ~b => Settled(vs, FALSE)
      /\ Turning(vld_sync, TRUE) /\ b => Turning(vs, TRUE)
      /\ Turning(vld_sync, FALSE) /\ ~b => Turning(vs, FALSE)
      /\ Settled(vld_sync, TRUE) =>
           Turning(vs, FALSE) /\ i_vld_sync /\ Turning(vld_sync, TRUE) /\ Turning(vld_sync, FALSE)
      /\ Settled(vld_sync, FALSE) =>
           Turning(vs, TRUE) /\ ~i_vld_sync /\ Turning(vld_sync, FALSE) /\ Turning(vld_sync, TRUE)
      /\ Turning(vld_sync, TRUE) /\ i_vld_sync => Settled(vld_sync, TRUE)
      /\ Turning(vld_sync, FALSE) /\ ~i_vld_sync => Settled(vld_sync, FALSE)
  BY <1>1, SyncShape DEF i_vld_sync
<1>4. /\ vld_r \in BOOLEAN /\ nrdy_r \in BOOLEAN /\ rdy_sync_r \in BOOLEAN
      /\ rdy_r \in BOOLEAN /\ vld_sync_r \in BOOLEAN /\ buf_vld \in BOOLEAN
      /\ in.i_vld \in BOOLEAN /\ o_rdy_sync \in BOOLEAN /\ i_vld_sync \in BOOLEAN
  BY CdcAssumption DEF TypeOK, TxInputs, o_rdy_sync, i_vld_sync, Stages
\* What an edge of each side does.
<1> DEFINE TxDoes == /\ vld_r' <=> \/ in.i_vld /\ (~nrdy_r \/ (~o_rdy_sync /\ rdy_sync_r))
                                   \/ vld_r /\ ~o_rdy_sync
                     /\ nrdy_r' <=> \/ in.i_vld /\ (~nrdy_r \/ (~o_rdy_sync /\ rdy_sync_r))
                                    \/ nrdy_r /\ (o_rdy_sync \/ ~rdy_sync_r)
                     /\ rdy_sync' = rs /\ (rdy_sync_r' <=> o_rdy_sync)
           RxDoes == /\ rdy_r' <=> \/ ~buf_vld /\ i_vld_sync /\ ~rdy_r
                                   \/ rdy_r /\ (i_vld_sync \/ ~vld_sync_r)
                     /\ vld_sync' = vs /\ (vld_sync_r' <=> i_vld_sync)
           TxIdle == /\ vld_r' <=> vld_r
                     /\ nrdy_r' <=> nrdy_r
                     /\ rdy_sync' = rdy_sync /\ (rdy_sync_r' <=> rdy_sync_r)
           RxIdle == /\ rdy_r' <=> rdy_r
                     /\ vld_sync' = vld_sync /\ (vld_sync_r' <=> vld_sync_r)
<1>5. \/ TxDoes /\ RxIdle /\ (a <=> rdy_r)
      \/ RxDoes /\ TxIdle /\ (b <=> vld_r)
      \/ /\ TxDoes /\ ((a <=> rdy_r) \/ (a <=> rdy_r'))
         /\ RxDoes /\ ((b <=> vld_r) \/ (b <=> vld_r'))
  <2>1. cdc_tx(in, a) => TxDoes /\ vld_r' = vld_nxt(in)
    <3>1. cdc_tx(in, a) => vld_r' = vld_nxt(in) /\ rdy_sync' = rs /\ (rdy_sync_r' <=> o_rdy_sync)
      BY DEF cdc_tx
    <3>2. vld_nxt(in) <=> \/ in.i_vld /\ (~nrdy_r \/ (~o_rdy_sync /\ rdy_sync_r))
                          \/ vld_r /\ ~o_rdy_sync
      BY Zenon DEF vld_nxt, vld_set, vld_clr, i_rdy, o_rdy_nedge
    <3>3. cdc_tx(in, a) => (nrdy_r' <=> vld_set(in) \/ (nrdy_r /\ ~o_rdy_nedge))
      BY Zenon DEF cdc_tx
    <3>4. vld_set(in) \/ (nrdy_r /\ ~o_rdy_nedge)
            <=> \/ in.i_vld /\ (~nrdy_r \/ (~o_rdy_sync /\ rdy_sync_r))
                \/ nrdy_r /\ (o_rdy_sync \/ ~rdy_sync_r)
      BY Zenon DEF vld_set, i_rdy, o_rdy_nedge
    <3> QED BY <3>1, <3>2, <3>3, <3>4, Zenon
  <2>2. cdc_rx(o, b) => RxDoes /\ rdy_r' = rdy_nxt
    BY <1>4 DEF cdc_rx, rdy_nxt, i_rdy_set, i_rdy_clr, i_vld_sync_nedge
  <2>3. UNCHANGED txVars => TxIdle
    BY DEF txVars
  <2>4. UNCHANGED rxVars => RxIdle
    BY DEF rxVars
  <2> HIDE DEF TxDoes, RxDoes, TxIdle, RxIdle
  <2> QED BY <2>1, <2>2, <2>3, <2>4 DEF AnEdge, Tx, Rx, Both
<1>6. TxDoes => /\ Settled(rdy_sync, TRUE)' <=> Settled(rs, TRUE)
                /\ Settled(rdy_sync, FALSE)' <=> Settled(rs, FALSE)
                /\ Turning(rdy_sync, TRUE)' <=> Turning(rs, TRUE)
                /\ Turning(rdy_sync, FALSE)' <=> Turning(rs, FALSE)
  BY DEF Settled, Turning
<1>7. TxIdle => /\ Settled(rdy_sync, TRUE)' <=> Settled(rdy_sync, TRUE)
                /\ Settled(rdy_sync, FALSE)' <=> Settled(rdy_sync, FALSE)
                /\ Turning(rdy_sync, TRUE)' <=> Turning(rdy_sync, TRUE)
                /\ Turning(rdy_sync, FALSE)' <=> Turning(rdy_sync, FALSE)
  BY DEF Settled, Turning
<1>8. RxDoes => /\ Settled(vld_sync, TRUE)' <=> Settled(vs, TRUE)
                /\ Settled(vld_sync, FALSE)' <=> Settled(vs, FALSE)
                /\ Turning(vld_sync, TRUE)' <=> Turning(vs, TRUE)
                /\ Turning(vld_sync, FALSE)' <=> Turning(vs, FALSE)
                /\ (i_vld_sync)' = vs[SYNC_DP]
                /\ Settled(vs, TRUE) => vs[SYNC_DP]
  BY CdcAssumption DEF Settled, Turning, i_vld_sync, Stages
<1>9. RxIdle => /\ Settled(vld_sync, TRUE)' <=> Settled(vld_sync, TRUE)
                /\ Settled(vld_sync, FALSE)' <=> Settled(vld_sync, FALSE)
                /\ Turning(vld_sync, TRUE)' <=> Turning(vld_sync, TRUE)
                /\ Turning(vld_sync, FALSE)' <=> Turning(vld_sync, FALSE)
                /\ (i_vld_sync)' = i_vld_sync
  BY DEF Settled, Turning, i_vld_sync
<1> HIDE DEF rs, vs
<1>10. CASE Idle
  <2>1. CASE TxDoes /\ RxIdle /\ (a <=> rdy_r)
    BY <1>2, <1>3, <1>6, <1>9, <1>10, <2>1, Zenon DEF Phases, Idle
  <2>2. CASE RxDoes /\ TxIdle /\ (b <=> vld_r)
    BY <1>2, <1>3, <1>7, <1>8, <1>10, <2>2, Zenon DEF Phases, Idle
  <2>3. CASE /\ TxDoes /\ ((a <=> rdy_r) \/ (a <=> rdy_r'))
             /\ RxDoes /\ ((b <=> vld_r) \/ (b <=> vld_r'))
    BY <1>2, <1>3, <1>6, <1>8, <1>10, <2>3, Zenon DEF Phases, Idle
  <2> QED BY <1>5, <2>1, <2>2, <2>3
<1>11. CASE vld_r /\ ~rdy_r
  <2>1. CASE TxDoes /\ RxIdle /\ (a <=> rdy_r)
    BY <1>2, <1>3, <1>6, <1>9, <1>11, <2>1, Zenon DEF Phases, Idle
  <2>2. CASE RxDoes /\ TxIdle /\ (b <=> vld_r)
    BY <1>2, <1>3, <1>7, <1>8, <1>11, <2>2, Zenon DEF Phases, Idle
  <2>3. CASE /\ TxDoes /\ ((a <=> rdy_r) \/ (a <=> rdy_r'))
             /\ RxDoes /\ ((b <=> vld_r) \/ (b <=> vld_r'))
    BY <1>2, <1>3, <1>6, <1>8, <1>11, <2>3, Zenon DEF Phases, Idle
  <2> QED BY <1>5, <2>1, <2>2, <2>3
<1>12. CASE vld_r /\ rdy_r
  <2>1. CASE TxDoes /\ RxIdle /\ (a <=> rdy_r)
    BY <1>2, <1>3, <1>6, <1>9, <1>12, <2>1, Zenon DEF Phases, Idle
  <2>2. CASE RxDoes /\ TxIdle /\ (b <=> vld_r)
    BY <1>2, <1>3, <1>7, <1>8, <1>12, <2>2, Zenon DEF Phases, Idle
  <2>3. CASE /\ TxDoes /\ ((a <=> rdy_r) \/ (a <=> rdy_r'))
             /\ RxDoes /\ ((b <=> vld_r) \/ (b <=> vld_r'))
    BY <1>2, <1>3, <1>6, <1>8, <1>12, <2>3, Zenon DEF Phases, Idle
  <2> QED BY <1>5, <2>1, <2>2, <2>3
<1>13. CASE ~vld_r /\ rdy_r
  <2>1. CASE TxDoes /\ RxIdle /\ (a <=> rdy_r)
    BY <1>2, <1>3, <1>6, <1>9, <1>13, <2>1, Zenon DEF Phases, Idle
  <2>2. CASE RxDoes /\ TxIdle /\ (b <=> vld_r)
    BY <1>2, <1>3, <1>7, <1>8, <1>13, <2>2, Zenon DEF Phases, Idle
  <2>3. CASE /\ TxDoes /\ ((a <=> rdy_r) \/ (a <=> rdy_r'))
             /\ RxDoes /\ ((b <=> vld_r) \/ (b <=> vld_r'))
    BY <1>2, <1>3, <1>6, <1>8, <1>13, <2>3, Zenon DEF Phases, Idle
  <2> QED BY <1>5, <2>1, <2>2, <2>3
<1>14. CASE ~vld_r /\ ~rdy_r /\ nrdy_r
  <2>1. CASE TxDoes /\ RxIdle /\ (a <=> rdy_r)
    BY <1>2, <1>3, <1>6, <1>9, <1>14, <2>1, Zenon DEF Phases, Idle
  <2>2. CASE RxDoes /\ TxIdle /\ (b <=> vld_r)
    BY <1>2, <1>3, <1>7, <1>8, <1>14, <2>2, Zenon DEF Phases, Idle
  <2>3. CASE /\ TxDoes /\ ((a <=> rdy_r) \/ (a <=> rdy_r'))
             /\ RxDoes /\ ((b <=> vld_r) \/ (b <=> vld_r'))
    BY <1>2, <1>3, <1>6, <1>8, <1>14, <2>3, Zenon DEF Phases, Idle
  <2> QED BY <1>5, <2>1, <2>2, <2>3
<1> QED BY <1>10, <1>11, <1>12, <1>13, <1>14 DEF Idle

-----------------------------------------------------------------------------
(* The steps of the handshake, and what they do to the words.              *)

\* What an edge of either side may do in the phase the handshake is in: the
\* sender may start only if both wires are low, the receiver may load only if
\* valid is high and ready low, and then neither word nor valid changes.
LEMMA EdgeSteps ==
  ASSUME TypeOK, Phases, NEW in \in TxInputs,
         NEW a \in BOOLEAN, NEW o \in BOOLEAN, NEW b \in BOOLEAN, AnEdge(in, a, o, b)
  PROVE  /\ vld_set(in) => ~vld_r /\ ~rdy_r
         /\ i_rdy_set => vld_r /\ ~rdy_r /\ ~buf_vld
         /\ \/ cdc_tx(in, a) /\ (vld_r' <=> vld_set(in) \/ (vld_r /\ (rdy_r => ~o_rdy_sync)))
            \/ UNCHANGED txVars
         /\ \/ cdc_rx(o, b) /\ (rdy_r' <=> i_rdy_set \/ (rdy_r /\ (~vld_r => i_vld_sync)))
            \/ UNCHANGED rxVars
<1>1. rdy_sync \in Bits /\ vld_sync \in Bits
  BY DEF TypeOK, Bits
<1>2. /\ Settled(rdy_sync, TRUE) => o_rdy_sync
      /\ Settled(rdy_sync, FALSE) => ~o_rdy_sync
      /\ Settled(vld_sync, TRUE) => i_vld_sync
      /\ Settled(vld_sync, FALSE) => ~i_vld_sync
  BY CdcAssumption DEF Settled, o_rdy_sync, i_vld_sync, Stages
<1>3. vld_set(in) => ~vld_r /\ ~rdy_r
  BY <1>2, Zenon DEF Phases, Idle, vld_set, i_rdy, o_rdy_nedge
<1>4. i_rdy_set => vld_r /\ ~rdy_r /\ ~buf_vld
  BY <1>2, Zenon DEF Phases, Idle, i_rdy_set
<1>5. cdc_tx(in, a) => (vld_r' <=> vld_set(in) \/ (vld_r /\ (rdy_r => ~o_rdy_sync)))
  <2>1. cdc_tx(in, a) => (vld_r' <=> vld_set(in) \/ (vld_r /\ ~(vld_r /\ o_rdy_sync)))
    BY Zenon DEF cdc_tx, vld_nxt, vld_clr
  <2>2. vld_r /\ ~rdy_r => ~o_rdy_sync
    BY <1>2 DEF Phases
  <2> QED BY <2>1, <2>2, Zenon
<1>6. cdc_rx(o, b) => (rdy_r' <=> i_rdy_set \/ (rdy_r /\ (~vld_r => i_vld_sync)))
  <2>1. cdc_rx(o, b) => (rdy_r' <=> i_rdy_set \/ (rdy_r /\ (i_vld_sync \/ ~vld_sync_r)))
    BY Zenon DEF cdc_rx, rdy_nxt, i_rdy_clr, i_vld_sync_nedge
  <2>2. (vld_r /\ rdy_r => i_vld_sync) /\ (~vld_r /\ rdy_r => vld_sync_r)
    BY <1>2 DEF Phases
  <2> QED BY <2>1, <2>2, Zenon
<1> QED BY <1>3, <1>4, <1>5, <1>6, Zenon DEF AnEdge, Tx, Rx, Both

\* Valid and ready change in turn, and the word holds still when it is loaded.
LEMMA EdgeTurns ==
  ASSUME TypeOK, Phases, NEW in \in TxInputs,
         NEW a \in BOOLEAN, NEW o \in BOOLEAN, NEW b \in BOOLEAN, AnEdge(in, a, o, b)
  PROVE  /\ vld_r' \in BOOLEAN /\ rdy_r' \in BOOLEAN
         /\ vld_r' # vld_r => vld_r' # rdy_r /\ rdy_r' = rdy_r
         /\ rdy_r' # rdy_r => rdy_r' = vld_r
         /\ rdy_r' /\ ~rdy_r => i_rdy_set /\ vld_r' /\ dat_r' = dat_r
         /\ i_rdy_set /\ cdc_rx(o, b) => rdy_r'
<1>1. TypeOK'
  BY EdgeType
<1>2. /\ vld_r \in BOOLEAN /\ rdy_r \in BOOLEAN
      /\ vld_r' \in BOOLEAN /\ rdy_r' \in BOOLEAN
  BY <1>1 DEF TypeOK
<1>3. /\ vld_set(in) => ~vld_r /\ ~rdy_r
      /\ i_rdy_set => vld_r /\ ~rdy_r
      /\ \/ cdc_tx(in, a) /\ (vld_r' <=> vld_set(in) \/ (vld_r /\ (rdy_r => ~o_rdy_sync)))
         \/ UNCHANGED txVars
      /\ \/ cdc_rx(o, b) /\ (rdy_r' <=> i_rdy_set \/ (rdy_r /\ (~vld_r => i_vld_sync)))
         \/ UNCHANGED rxVars
  BY EdgeSteps, Zenon
<1>4. UNCHANGED txVars => (vld_r' <=> vld_r) /\ dat_r' = dat_r
  BY DEF txVars
<1>5. UNCHANGED rxVars => (rdy_r' <=> rdy_r)
  BY DEF rxVars
<1>6. cdc_tx(in, a) /\ ~vld_set(in) => dat_r' = dat_r
  BY DEF cdc_tx
<1>7. cdc_rx(o, b) => (rdy_r' <=> i_rdy_set \/ (rdy_r /\ ~i_rdy_clr))
  BY Zenon DEF cdc_rx, rdy_nxt
<1>8. /\ ~(vld_r' <=> vld_r) => ~(vld_r' <=> rdy_r) /\ (rdy_r' <=> rdy_r)
      /\ ~(rdy_r' <=> rdy_r) => (rdy_r' <=> vld_r)
      /\ rdy_r' /\ ~rdy_r => i_rdy_set /\ vld_r' /\ dat_r' = dat_r
      /\ i_rdy_set /\ cdc_rx(o, b) => rdy_r'
  BY <1>3, <1>4, <1>5, <1>6, <1>7, Zenon
<1> QED BY <1>2, <1>8

\* An edge takes a word, delivers one, does both, moves one on inside the
\* channel, or does none of these.
Sends(in)  == /\ ~waiting /\ waiting' /\ dat_r' = in.i_dat
              /\ inp' = Another(inp, in.i_dat)
Holds      == waiting' = waiting /\ dat_r' = dat_r /\ inp' = inp
Delivers   == buf_vld /\ ~buf_vld' /\ out' = Another(out, buf_dat)
Keeps      == buf_vld' = buf_vld /\ buf_dat' = buf_dat /\ out' = out
Moves      == /\ waiting /\ ~waiting' /\ dat_r' = dat_r /\ inp' = inp
              /\ ~buf_vld /\ buf_vld' /\ buf_dat' = dat_r /\ out' = out

LEMMA EdgeWords ==
  ASSUME TypeOK, Phases, NEW in \in TxInputs,
         NEW a \in BOOLEAN, NEW o \in BOOLEAN, NEW b \in BOOLEAN, AnEdge(in, a, o, b)
  PROVE  Moves \/ ((Sends(in) \/ Holds) /\ (Delivers \/ Keeps))
<1>1. /\ vld_set(in) => ~vld_r /\ ~rdy_r
      /\ i_rdy_set => vld_r /\ ~rdy_r /\ ~buf_vld
      /\ \/ cdc_tx(in, a) /\ (vld_r' <=> vld_set(in) \/ (vld_r /\ (rdy_r => ~o_rdy_sync)))
         \/ UNCHANGED txVars
      /\ \/ cdc_rx(o, b) /\ (rdy_r' <=> i_rdy_set \/ (rdy_r /\ (~vld_r => i_vld_sync)))
         \/ UNCHANGED rxVars
  BY EdgeSteps, Zenon
<1>2. TypeOK'
  BY EdgeType
<1>3. /\ vld_r \in BOOLEAN /\ rdy_r \in BOOLEAN /\ buf_vld \in BOOLEAN
      /\ vld_r' \in BOOLEAN /\ rdy_r' \in BOOLEAN /\ buf_vld' \in BOOLEAN
  BY <1>2 DEF TypeOK
<1>4. UNCHANGED txVars => (vld_r' <=> vld_r) /\ dat_r' = dat_r /\ inp' = inp
  BY DEF txVars
<1>5. UNCHANGED rxVars => (rdy_r' <=> rdy_r) /\ (buf_vld' <=> buf_vld) /\ buf_dat' = buf_dat /\ out' = out
  BY DEF rxVars
<1>6. cdc_tx(in, a) /\ vld_set(in) => dat_r' = in.i_dat /\ inp' = Another(inp, in.i_dat)
  BY DEF cdc_tx
<1>7. cdc_tx(in, a) /\ ~vld_set(in) => dat_r' = dat_r /\ inp' = inp
  BY DEF cdc_tx
<1>8. cdc_rx(o, b) => (buf_vld' <=> i_rdy_set \/ (buf_vld /\ ~o))
  BY Zenon DEF cdc_rx
<1>9. cdc_rx(o, b) /\ ~i_rdy_set => buf_dat' = buf_dat
  BY DEF cdc_rx
<1>10. cdc_rx(o, b) /\ i_rdy_set /\ dat_r' = dat_r => buf_dat' = dat_r
  BY DEF cdc_rx
<1>11. /\ cdc_rx(o, b) /\ buf_vld /\ o => out' = Another(out, buf_dat)
       /\ cdc_rx(o, b) /\ ~(buf_vld /\ o) => out' = out
  BY DEF cdc_rx
<1>12. (waiting <=> vld_r /\ ~rdy_r) /\ (waiting' <=> vld_r' /\ ~rdy_r')
  BY DEF waiting
<1>13. /\ (waiting' <=> waiting) => waiting' = waiting
       /\ (buf_vld' <=> buf_vld) => buf_vld' = buf_vld
  BY <1>3 DEF waiting
<1>14. CASE i_rdy_set /\ cdc_rx(o, b)
  <2>1. waiting /\ ~waiting' /\ dat_r' = dat_r /\ inp' = inp /\ ~buf_vld
    BY <1>1, <1>4, <1>5, <1>7, <1>8, <1>12, <1>14, Zenon
  <2> QED BY <1>8, <1>10, <1>11, <1>14, <2>1, Zenon DEF Moves
<1>15. CASE ~(i_rdy_set /\ cdc_rx(o, b))
  <2>1. Delivers \/ Keeps
    BY <1>1, <1>5, <1>8, <1>9, <1>11, <1>13, <1>15, Zenon DEF Delivers, Keeps
  <2>2. Sends(in) \/ Holds
    BY <1>1, <1>4, <1>5, <1>6, <1>7, <1>12, <1>13, <1>15, Zenon DEF Sends, Holds
  <2> QED BY <2>1, <2>2
<1> QED BY <1>14, <1>15
-----------------------------------------------------------------------------
(* The theorems.                                                           *)

LEMMA Beginning == Init => TypeOK /\ Phases
  BY CdcAssumption DEF Init, TypeOK, Phases, Idle, Low, Settled, Stages

LEMMA StepInv == TypeOK /\ Phases /\ [Next]_vars => (TypeOK /\ Phases)'
<1> SUFFICES ASSUME TypeOK, Phases, [Next]_vars PROVE (TypeOK /\ Phases)'
  OBVIOUS
<1>1. CASE Next
  BY <1>1, NextIsEdge, EdgeType, EdgePhases, Zenon
<1>2. CASE UNCHANGED vars
  BY <1>2 DEF vars, txVars, rxVars, TypeOK, Phases, Idle, Settled, Turning,
              i_vld_sync, o_rdy_sync
<1> QED BY <1>1, <1>2

\* Each phase of the handshake has one wire in motion, and the synchronisers hold
\* what the sides have seen (sirv_gnrl_bufs.v:166-186 and 265-295).
THEOREM PhasesHold == Spec => [](TypeOK /\ Phases)
  BY Beginning, StepInv, PTL DEF Spec

\* Valid rises, ready rises, valid falls, ready falls (sirv_gnrl_bufs.v:149-154).
THEOREM FourPhaseHolds == Spec => FourPhase
<1>1. TypeOK /\ Phases /\ [Next]_vars =>
        [/\ vld_r' # vld_r => vld_r' # rdy_r /\ rdy_r' = rdy_r
         /\ rdy_r' # rdy_r => rdy_r' = vld_r]_vars
  BY NextIsEdge, EdgeTurns
<1> QED BY <1>1, PhasesHold, PTL DEF Spec, FourPhase

\* The word does not change at the edge that loads it (sirv_gnrl_bufs.v:196-198).
THEOREM StableData == Spec => DataStable
<1>1. TypeOK /\ Phases /\ [Next]_vars => [rdy_r' /\ ~rdy_r => dat_r' = dat_r]_vars
  BY NextIsEdge, EdgeTurns
<1> QED BY <1>1, PhasesHold, PTL DEF Spec, DataStable

\* The words inside the channel.
LEMMA QueueIs ==
  ASSUME TypeOK
  PROVE  /\ buf_vld /\ waiting   => Queue = <<buf_dat, dat_r>>
         /\ buf_vld /\ ~waiting  => Queue = <<buf_dat>>
         /\ ~buf_vld /\ waiting  => Queue = <<dat_r>>
         /\ ~buf_vld /\ ~waiting => Queue = <<>>
  BY DEF Queue, TypeOK

\* Sequences of at most two words.
LEMMA Tuples ==
  ASSUME NEW x, NEW y
  PROVE  /\ Len(<< >>) = 0 /\ Len(<<x>>) = 1
         /\ <<x>> # << >> /\ <<x, y>> # << >>
         /\ Head(<<x>>) = x /\ Tail(<<x>>) = << >>
         /\ Head(<<x, y>>) = x /\ Tail(<<x, y>>) = <<y>>
         /\ Append(<< >>, x) = <<x>> /\ Append(<<x>>, y) = <<x, y>>
<1> DEFINE S == {x, y}
<1>1. <<x>> \in Seq(S) /\ <<x, y>> \in Seq(S) /\ Len(<<x>>) = 1 /\ Len(<<x, y>>) = 2
  OBVIOUS
<1>2. /\ Append(<<x>>, y) \in Seq(S) /\ Len(Append(<<x>>, y)) = 2
      /\ Append(<<x>>, y)[1] = x /\ Append(<<x>>, y)[2] = y
  BY <1>1, AppendProperties
<1>3. \A i \in 1 .. 2 : Append(<<x>>, y)[i] = <<x, y>>[i]
  BY <1>2
<1>4. Append(<<x>>, y) = <<x, y>>
  BY <1>1, <1>2, <1>3, SeqEqual
<1>5. <<x>> # << >> /\ <<x, y>> # << >> /\ Head(<<x>>) = x /\ Tail(<<x>>) = << >>
  OBVIOUS
<1>6. Head(<<x, y>>) = x /\ Tail(<<x, y>>) = <<y>> /\ Append(<< >>, x) = <<x>>
  OBVIOUS
<1> QED BY <1>1, <1>4, <1>5, <1>6

\* The handshake is a queue of two words (sirv_gnrl_bufs.v:142-297).
THEOREM Implementation == Spec => ImplementsFifo
<1>1. Init => Channel!Init
  <2> SUFFICES ASSUME Init PROVE Channel!Init
    OBVIOUS
  <2>1. Queue = <<>> /\ inp \in Transfers /\ out \in Transfers
    BY DEF Init, Queue, waiting
  <2> QED BY <2>1 DEF Channel!Init, Channel!Transfers, Transfers
<1>2. TypeOK /\ Phases /\ TypeOK' /\ [Next]_vars => [Channel!Next]_<<Queue, inp, out>>
  <2> SUFFICES ASSUME TypeOK, Phases, TypeOK', [Next]_vars
               PROVE  Channel!Next \/ UNCHANGED <<Queue, inp, out>>
    OBVIOUS
  <2>1. CASE UNCHANGED vars
    BY <2>1 DEF vars, txVars, rxVars, Queue, waiting
  <2>2. ASSUME NEW in \in TxInputs,
               Moves \/ ((Sends(in) \/ Holds) /\ (Delivers \/ Keeps))
        PROVE  Channel!Next \/ UNCHANGED <<Queue, inp, out>>
    <3>1. /\ buf_vld /\ waiting   => Queue = <<buf_dat, dat_r>>
          /\ buf_vld /\ ~waiting  => Queue = <<buf_dat>>
          /\ ~buf_vld /\ waiting  => Queue = <<dat_r>>
          /\ ~buf_vld /\ ~waiting => Queue = <<>>
      BY QueueIs
    <3>2. /\ buf_vld' /\ waiting'   => Queue' = <<buf_dat', dat_r'>>
          /\ buf_vld' /\ ~waiting'  => Queue' = <<buf_dat'>>
          /\ ~buf_vld' /\ waiting'  => Queue' = <<dat_r'>>
          /\ ~buf_vld' /\ ~waiting' => Queue' = <<>>
      BY DEF Queue, TypeOK
    <3>3. in.i_dat \in Data
      BY DEF TxInputs
    <3>4. CASE Moves
      BY <3>1, <3>2, <3>4 DEF Moves
    <3>5. CASE Holds /\ Keeps
      BY <3>1, <3>2, <3>5 DEF Holds, Keeps
    <3>6. CASE Sends(in) /\ Keeps
      <4>1. /\ Len(Queue) < 2 /\ Queue' = Append(Queue, in.i_dat)
            /\ inp' = Another(inp, in.i_dat) /\ out' = out
        <5>1. CASE buf_vld
          <6>1. Queue = <<buf_dat>> /\ Queue' = <<buf_dat, in.i_dat>>
            BY <3>1, <3>2, <3>6, <5>1, Zenon DEF Sends, Keeps
          <6>2. Len(Queue) = 1
            BY <6>1, Tuples, Zenon
          <6> QED BY <3>6, <6>1, <6>2, Tuples DEF Sends, Keeps
        <5>2. CASE ~buf_vld
          <6>1. Queue = << >> /\ Queue' = <<in.i_dat>>
            BY <3>1, <3>2, <3>6, <5>2, Zenon DEF Sends, Keeps
          <6> QED BY <3>6, <6>1, Tuples DEF Sends, Keeps
        <5> QED BY <5>1, <5>2
      <4> QED BY <3>3, <4>1 DEF Channel!Next, Channel!Put, Channel!Another, Another
    <3>7. CASE Holds /\ Delivers
      <4>1. /\ Queue # <<>> /\ Queue' = Tail(Queue)
            /\ out' = Another(out, Head(Queue)) /\ inp' = inp
        <5>1. CASE waiting
          <6>1. Queue = <<buf_dat, dat_r>> /\ Queue' = <<dat_r>>
            BY <3>1, <3>2, <3>7, <5>1, Zenon DEF Holds, Delivers
          <6> QED BY <3>7, <6>1, Tuples, Zenon DEF Holds, Delivers
        <5>2. CASE ~waiting
          <6>1. Queue = <<buf_dat>> /\ Queue' = << >>
            BY <3>1, <3>2, <3>7, <5>2, Zenon DEF Holds, Delivers
          <6> QED BY <3>7, <6>1, Tuples, Zenon DEF Holds, Delivers
        <5> QED BY <5>1, <5>2
      <4> QED BY <4>1 DEF Channel!Next, Channel!Get, Channel!Another, Another
    <3>8. CASE Sends(in) /\ Delivers
      <4>1. /\ Queue # <<>> /\ Queue' = Append(Tail(Queue), in.i_dat)
            /\ inp' = Another(inp, in.i_dat) /\ out' = Another(out, Head(Queue))
        <5>1. Queue = <<buf_dat>> /\ Queue' = <<in.i_dat>>
          BY <3>1, <3>2, <3>8, Zenon DEF Sends, Delivers
        <5> QED BY <3>8, <5>1, Tuples, Zenon DEF Sends, Delivers
      <4> QED BY <3>3, <4>1 DEF Channel!Next, Channel!PutGet, Channel!Another, Another
    <3> QED BY <2>2, <3>4, <3>5, <3>6, <3>7, <3>8
  <2>3. CASE Next
    BY <2>2, <2>3, NextIsEdge, EdgeWords, Zenon
  <2> QED BY <2>1, <2>3
<1> QED BY <1>1, <1>2, PhasesHold, PTL DEF Spec, ImplementsFifo, Channel!Spec
=============================================================================
