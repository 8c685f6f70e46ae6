------------------------------ MODULE UartPl011 ------------------------------
(***************************************************************************)
(* The UART driver (contrib/bcm/drivers/uart_pl011.c): two rings between   *)
(* tasks and the ISR, a direct push into the transmitter from uart_putc,   *)
(* and a semaphore for the task that reads. Bytes are only counted.        *)
(*                                                                         *)
(* uart_putc and the halves of uart_getc run with interrupts suspended; the*)
(* ISR reads and clears its causes first and works then, and the device    *)
(* goes on in between. The FIFOs are disabled (LCR_FEN is not set): each   *)
(* direction has one holding register.                                     *)
(*                                                                         *)
(* uart_config masks the transmit interrupt when the console is polled at  *)
(* that moment, and nothing enables it later; printf_setmode changes the   *)
(* mode between any two characters, so that both ways to print are always  *)
(* possible.                                                               *)
(***************************************************************************)
EXTENDS Naturals

CONSTANTS
  TxSize, RxSize, \* slots of the rings, one of which stays free
  MaxSemRx        \* EE_MAX_SEM_COUNTER

ASSUME RingsHaveRoom == TxSize \in Nat \ {0} /\ RxSize \in Nat \ {0, 1}
ASSUME SemRxCounts == MaxSemRx \in Nat \ {0}

VARIABLES
  txHead, txTail, rxHead, rxTail, \* of the rings
  semRx,          \* SemRx
  readerPc,       \* the task in uart_getc
  mis, inIsr,     \* what uart_irq_handler read
  txFull, rxFull, \* the holding registers
  ris,            \* raised causes: TX, RX and ERR for the error ones
  txMasked        \* TXIM is clear in UARTIMSC

uartVars == <<txHead, txTail, rxHead, rxTail, semRx, readerPc, mis, inIsr, txFull, rxFull,
              ris, txMasked>>
txSide == <<txHead, txTail, txFull>>
rxSide == <<rxHead, rxTail, semRx, readerPc>>

TxIncr(i) == (i + 1) % TxSize
RxIncr(i) == (i + 1) % RxSize
RxEmpty == rxHead = rxTail
TxEmpty == txHead = txTail

\* uart_config, with the console polled or not.
UartInit ==
  /\ txHead = 0 /\ txTail = 0 /\ rxHead = 0 /\ rxTail = 0
  /\ semRx = 0 /\ readerPc = "idle" /\ mis = {} /\ inIsr = FALSE
  /\ txFull = FALSE /\ rxFull = FALSE /\ ris = {}
  /\ txMasked \in BOOLEAN

-----------------------------------------------------------------------------
\* The device: a byte has left the transmitter, one has come, one has been lost.
ByteSent ==
  /\ txFull
  /\ txFull' = FALSE /\ ris' = ris \cup {"TX"}
  /\ UNCHANGED <<txHead, txTail, rxSide, mis, inIsr, rxFull, txMasked>>

ByteReceived ==
  /\ rxFull' = TRUE
  /\ ris' = ris \cup {IF rxFull THEN "ERR" ELSE "RX"}
  /\ UNCHANGED <<txSide, rxSide, mis, inIsr, txMasked>>

\* UARTMIS
Raised == IF txMasked THEN ris \ {"TX"} ELSE ris

\* uart_irq_handler: read mis and clear those causes.
IsrEnter ==
  /\ ~inIsr /\ Raised # {}
  /\ inIsr' = TRUE /\ mis' = Raised /\ ris' = ris \ Raised
  /\ UNCHANGED <<txSide, rxSide, rxFull, txMasked>>

\* Mutant of RestartReader.
RestartBlockedReader ==   \* no post while nobody is blocked yet
  /\ readerPc' = IF readerPc = "blocked" /\ rxHead # rxTail' THEN "again" ELSE readerPc
  /\ UNCHANGED semRx

\* "Restart any thread waiting for input": a post whenever the ring is not empty.
RestartReader ==
  IF rxHead = rxTail' THEN UNCHANGED <<semRx, readerPc>>
  ELSE IF readerPc = "blocked" THEN readerPc' = "again" /\ UNCHANGED semRx
  ELSE semRx' = (IF semRx = MaxSemRx THEN semRx ELSE semRx + 1) /\ UNCHANGED readerPc

\* ... and the rest of it: fill the transmitter, drain the receiver (a byte is
\* discarded when the ring is full), post.
IsrWork ==
  LET fill == "TX" \in mis /\ ~TxEmpty /\ ~txFull
      drain == "RX" \in mis /\ rxFull
  IN
  /\ inIsr
  /\ inIsr' = FALSE /\ mis' = {}
  /\ txHead' = IF fill THEN TxIncr(txHead) ELSE txHead
  /\ txFull' = (txFull \/ fill)
  /\ rxFull' = (rxFull /\ ~drain)
  /\ rxTail' = IF drain /\ RxIncr(rxTail) # rxHead THEN RxIncr(rxTail) ELSE rxTail
  /\ RestartReader
  /\ UNCHANGED <<txTail, rxHead, ris, txMasked>>

-----------------------------------------------------------------------------
\* Mutant of PushesOut.
NeverPushesOut == FALSE

\* "HW TX FIFO available? push out a character from head immediately"
PushesOut == ~txFull

\* uart_putc, by a task or an ISR: into the ring, over its oldest byte when it is
\* full, and one byte out when the transmitter is free.
Putc ==
  /\ ~inIsr
  /\ txTail' = TxIncr(txTail)
  /\ txHead' = IF PushesOut THEN TxIncr(txHead) ELSE txHead
  /\ txFull' = (txFull \/ PushesOut)
  /\ UNCHANGED <<rxSide, mis, inIsr, rxFull, ris, txMasked>>

\* uart_putc_polled, past the ring.
PutcPolled ==
  /\ ~inIsr /\ ~txFull
  /\ txFull' = TRUE
  /\ UNCHANGED <<txHead, txTail, rxSide, mis, inIsr, rxFull, ris, txMasked>>

\* uart_getc: an empty ring is waited for ...
GetcWait ==
  /\ ~inIsr /\ readerPc = "idle" /\ RxEmpty
  /\ readerPc' = "wait"
  /\ UNCHANGED <<txSide, rxHead, rxTail, semRx, mis, inIsr, rxFull, ris, txMasked>>

WaitSemRx ==
  /\ ~inIsr /\ readerPc = "wait"
  /\ IF semRx > 0 THEN semRx' = semRx - 1 /\ readerPc' = "again"
     ELSE readerPc' = "blocked" /\ UNCHANGED semRx
  /\ UNCHANGED <<txSide, rxHead, rxTail, mis, inIsr, rxFull, ris, txMasked>>

\* ... and then a byte is taken, or -1 returned when a post was left over from
\* bytes already read.
GetcTake ==
  /\ ~inIsr /\ (readerPc = "again" \/ (readerPc = "idle" /\ ~RxEmpty))
  /\ rxHead' = IF RxEmpty THEN rxHead ELSE RxIncr(rxHead)
  /\ readerPc' = "idle"
  /\ UNCHANGED <<txSide, rxTail, semRx, mis, inIsr, rxFull, ris, txMasked>>

UartNext ==
  \/ ByteSent \/ ByteReceived \/ IsrEnter \/ IsrWork
  \/ Putc \/ PutcPolled \/ GetcWait \/ WaitSemRx \/ GetcTake
UartSpec == UartInit /\ [][UartNext]_uartVars

-----------------------------------------------------------------------------
\* The reader is never left blocked with input in the ring, wherever a byte comes
\* between the test, the wait and the posts.
ReaderServed == readerPc = "blocked" => RxEmpty

\* No byte is stranded in either direction: with bytes in the transmit ring the
\* transmitter is busy or its interrupt is to come, and a received byte is
\* waited for by an interrupt. Not so for the transmit ring of a console that was
\* polled when the UART was configured: a byte that uart_putc leaves there has only
\* the next uart_putc to move it.
NoByteStranded ==
  /\ ~TxEmpty /\ ~txMasked => txFull \/ "TX" \in ris \cup mis
  /\ rxFull => "RX" \in ris \cup mis
=============================================================================
