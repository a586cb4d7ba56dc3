----------------------------- MODULE PacketModem -----------------------------
(***************************************************************************)
(* The packet firmware of the modem as the host sees it over the UART: the *)
(* receive capture, the transmit engine, and the answer to each request    *)
(* of the YWD_RX and YWD_RF namespaces.  The firmware is built from the    *)
(* sources under firmware/vendor.                                          *)
(***************************************************************************)
EXTENDS Integers

\* The transmit engine: a burst is loaded when the selectors were accepted
\* (m_active), keyed once the first samples reached the radio (m_active and
\* m_tx), draining when all samples were generated but the radio still sends
\* them (m_tx alone).
TxStates == {"idle", "loaded", "keyed", "draining"}

Modems == [rx : BOOLEAN, tx : TxStates, dropped : BOOLEAN]

Ops == {"rx_status", "rx_stop", "rx_start", "rf_status", "rf_diag", "tx_burst"}

\* remaining() # 0 and m_tx.
SelectorsRemain(m) == m.tx \in {"loaded", "keyed"}
TxActive(m) == m.tx \in {"keyed", "draining"}

\* RX_START and TX_TONES are refused while the other direction is in use.
Refuses(m, op) ==
    \/ op = "rx_start" /\ (m.rx \/ m.tx # "idle")
    \/ op = "tx_burst" /\ (m.rx \/ m.tx # "idle")

\* The modem after a request.
ModemAfter(m, op) ==
    IF Refuses(m, op) THEN m
    ELSE CASE op = "rx_start" -> [m EXCEPT !.rx = TRUE, !.dropped = FALSE]
           [] op = "rx_stop" -> [m EXCEPT !.rx = FALSE]
           [] op = "tx_burst" -> [m EXCEPT !.tx = "loaded"]
           [] OTHER -> m

\* A burst runs on by itself: one refill may generate a short burst whole.
TxProgress(tx) ==
    CASE tx = "loaded" -> {"keyed", "draining"}
      [] tx = "keyed" -> {"draining"}
      [] tx = "draining" -> {"idle"}
      [] OTHER -> {}

-----------------------------------------------------------------------------
(***************************************************************************)
(* Replies.  A reply names what the host's parsers tell apart: the         *)
(* namespace of an acknowledgement, the kind of a report and its content.  *)
(***************************************************************************)
Nak == [kind |-> "nak"]
Ack(namespace) == [kind |-> namespace]
RxReport(m) == [kind |-> "rx_status", rx |-> m.rx, tx |-> TxActive(m),
                dropped |-> m.dropped]
RfReport(m) == [kind |-> "rf_status", remain |-> SelectorsRemain(m)]
DiagReport(m) == [kind |-> "rf_diag", tx |-> TxActive(m)]

Replies ==
    {Nak, Ack("ack_rx"), Ack("ack_rf")}
    \cup [kind : {"rx_status"}, rx : BOOLEAN, tx : BOOLEAN, dropped : BOOLEAN]
    \cup [kind : {"rf_status"}, remain : BOOLEAN]
    \cup [kind : {"rf_diag"}, tx : BOOLEAN]

ModemReply(m, op) ==
    IF Refuses(m, op) THEN Nak
    ELSE CASE op \in {"rx_start", "rx_stop"} -> Ack("ack_rx")
           [] op = "tx_burst" -> Ack("ack_rf")
           [] op = "rx_status" -> RxReport(m)
           [] op = "rf_status" -> RfReport(m)
           [] op = "rf_diag" -> DiagReport(m)
=============================================================================
