----------------------------- MODULE SoftSerial -----------------------------
(***************************************************************************)
(* The receive path of libraries/espsoftwareserial on one plug of the hub: *)
(* rxBitISR() stores the cycle and the level of every change of the line   *)
(* in a ring, and the Arduino task decodes them when it polls              *)
(* (available()), hears answers up to the first control character          *)
(* (waitForResponseSwSerial) and listens only between its own requests.    *)
(* A poll is two steps: the interrupt can come between them.               *)
(*                                                                         *)
(* Time counts in fractions of a bit; a byte is its data bits, the lowest  *)
(* first.  The line is not inverted.                                       *)
(***************************************************************************)
EXTENDS Integers, SequencesExt

CONSTANTS
  DataBits,      \* m_dataBits (8)
  BitCycles,     \* m_bitCycles
  Wrap,          \* what rxBits' count of bits wraps at (2^8)
  BufCapacity,   \* bytes m_buffer holds (64)
  IsrCapacity,   \* changes m_isrBuffer holds (640)
  Answers,       \* what a board may answer
  Control,       \* characters below 32
  LF,
  Timeout,       \* config.responseTimeout
  Delays,        \* bound: when a board begins to answer
  MaxLatency,    \* bound: how late the interrupt reads clock and level
  MaxLate,       \* bound: interrupts that are late
  MaxHold,       \* bound: how long a poll is held up between its steps
  MaxGap,        \* bound: pause of a board between two bytes
  MaxExchanges   \* bound: requests

Bytes == [1 .. DataBits -> {0, 1}]
Frame == (DataBits + 2) * BitCycles
Silent == MaxLatency + MaxGap + 1

(* A latency of half a bit or a pause of Wrap bits would be misread.       *)
ASSUME SoftSerialAssumption ==
  /\ DataBits \in Nat \ {0} /\ BitCycles \in Nat \ {0}
  /\ MaxLatency \in Nat /\ 2 * MaxLatency < BitCycles
  /\ MaxGap \in Nat /\ Wrap \in Nat /\ MaxGap + Frame < (Wrap - 1) * BitCycles
  /\ BufCapacity \in Nat \ {0} /\ IsrCapacity \in Nat
  /\ LF \in Control /\ Control \subseteq Bytes
  /\ \A a \in Answers : a \in Seq(Bytes) /\ a # << >>
  /\ Delays \subseteq Nat /\ MaxLate \in Nat /\ Timeout \in Nat /\ MaxExchanges \in Nat

VARIABLES
  (* the board *)
  out,        \* bytes to send, the first one perhaps under way
  phase,      \* time into its frame, -1 between frames
  quiet,      \* time since the last frame, up to Silent
  (* interrupt and hub *)
  edge,       \* how long a change has waited for rxBitISR(), -1: none has
  isrBuffer,  \* changes: [cycle, level]
  rx,         \* m_rxCurBit, m_rxCurByte, m_isrLastCycle (cycle and level),
              \* m_buffer, and whether a push into it was refused
  isrOverflow,
  poll,       \* next step of a poll
  isrAvail,   \* rxBits' local copy
  held,       \* time since it was taken
  rxEnabled,
  now,        \* since enableRx(true)
  got,        \* characters read in this exchange
  (* history and bounds *)
  answer,     \* what the board sends in this exchange
  old,        \* decoded while the request went out
  lateISRs,   \* interrupts that came late
  due,        \* bytes whose frames were over when the poll under way began
  raced,      \* a stop bit was made up behind changes that had come meanwhile
  exchanges

boardVars == <<out, phase, quiet>>
hubVars   == <<isrBuffer, rx, isrOverflow, poll, isrAvail, held, rxEnabled, got>>
history   == <<answer, old, due, raced, exchanges, lateISRs>>
vars      == <<boardVars, edge, hubVars, now, history>>

Idle == [bit |-> DataBits, byte |-> << >>, cycle |-> 0, level |-> 1, buffer |-> << >>,
         refused |-> FALSE]

Init ==
  /\ out = << >> /\ phase = -1 /\ quiet = Silent
  /\ edge = -1 /\ isrBuffer = << >> /\ rx = Idle /\ isrOverflow = FALSE
  /\ poll = "none" /\ isrAvail = 0 /\ held = 0 /\ rxEnabled = FALSE /\ now = 0 /\ got = << >>
  /\ answer = << >> /\ old = << >> /\ due = 0
  /\ raced = FALSE /\ exchanges = 0 /\ lateISRs = 0

-----------------------------------------------------------------------------
(* Decoding *)

(* Mutant: the time between two changes is rounded down.                   *)
BitCountDown(d) == IF d < 0 THEN 0 ELSE (d \div BitCycles) % Wrap

(* Rounded, and kept in a uint8_t; what is less than a bit early is 0.     *)
BitCount(d) ==
  IF d < 0 THEN 0
  ELSE (d \div BitCycles + (IF d % BitCycles > BitCycles \div 2 THEN 1 ELSE 0)) % Wrap

Push(r, b) ==
  IF Len(r.buffer) < BufCapacity THEN [r EXCEPT !.buffer = Append(@, b)]
  ELSE [r EXCEPT !.refused = TRUE]

(* Mutant: the level of the stop bit is not tested.                        *)
StopBitBlind(r, level) == [Push(r, r.byte) EXCEPT !.bit = DataBits, !.byte = << >>]

StopBit(r, level) ==
  [(IF level = 1 THEN Push(r, r.byte) ELSE r) EXCEPT !.bit = DataBits, !.byte = << >>]

Shortest(a, b) == IF a < b THEN a ELSE b

(* n bits of one level, the start bit behind them: data bits, and the stop *)
(* bit if any are left.                                                    *)
DataThenStop(r, level, n) ==
  LET d == Shortest(n, DataBits - 1 - r.bit)
      s == [r EXCEPT !.bit = @ + d, !.byte = @ \o [i \in 1 .. d |-> level]]
  IN  IF s.bit = DataBits - 1 /\ n > d THEN StopBit(s, level) ELSE s

(* rxBits(isrCycle): what the line was like up to this change.             *)
Decode(r, change) ==
  LET n == BitCount(change.cycle - r.cycle)
      s == [r EXCEPT !.cycle = change.cycle, !.level = change.level]
      starts == r.bit >= DataBits
  IN  IF n = 0 \/ (starts /\ r.level = 1) THEN s
      ELSE IF starts THEN DataThenStop([s EXCEPT !.bit = -1, !.byte = << >>], 0, n - 1)
      ELSE DataThenStop(s, r.level, n)

(* Mutant: the stop bit is not counted.                                    *)
ExpectedEarly(r) == r.cycle + (DataBits - 1 - r.bit) * BitCycles

Expected(r) == r.cycle + (DataBits - r.bit) * BitCycles

(* The end of the byte under way, at its last level.                       *)
Complete(r) ==
  IF r.bit < DataBits THEN Decode(r, [cycle |-> Expected(r), level |-> 1]) ELSE r

(* All changes in the ring, one after the other.                           *)
DecodeAll(r, changes) ==
  LET f[k \in 0 .. Len(changes)] == IF k = 0 THEN r ELSE Decode(f[k - 1], changes[k])
  IN  f[Len(changes)]

Drained(r) == DecodeAll(r, isrBuffer)

-----------------------------------------------------------------------------
(* The board and the line *)

Level(b, t) ==
  IF t < BitCycles THEN 0
  ELSE IF t < (DataBits + 1) * BitCycles THEN b[t \div BitCycles] ELSE 1

Line(o, t) == IF t = -1 THEN 1 ELSE Level(Head(o), t)

Changes(o, t) == rxEnabled /\ Line(o, t) # Line(out, phase)

StartBit ==
  /\ out # << >> /\ phase = -1
  /\ rxEnabled /\ out = answer => now \in Delays
  /\ phase' = 0
  /\ edge' = IF Changes(out, 0) THEN 0 ELSE edge
  /\ UNCHANGED <<out, quiet, hubVars, now, history>>

(* Time passes; the hub's matters while it listens.                        *)
Tick ==
  /\ edge < MaxLatency /\ now < Timeout
  /\ held' = held + (IF poll = "rxBits" THEN 1 ELSE 0) /\ held' <= MaxHold
  /\ lateISRs' = lateISRs + (IF edge = 0 THEN 1 ELSE 0)
  /\ lateISRs' <= MaxLate
  /\ now' = IF rxEnabled THEN now + 1 ELSE now
  /\ IF phase = -1
     THEN /\ rxEnabled \/ out # << >>
          /\ out # << >> /\ out # answer => quiet < MaxGap
          /\ quiet' = Shortest(quiet + 1, Silent)
          /\ edge' = IF edge >= 0 THEN edge + 1 ELSE edge
          /\ UNCHANGED <<out, phase>>
     ELSE /\ phase' = IF phase + 1 = Frame THEN -1 ELSE phase + 1
          /\ out' = IF phase + 1 = Frame THEN Tail(out) ELSE out
          /\ quiet' = 0
          /\ edge' = IF edge >= 0 THEN edge + 1
                     ELSE IF Changes(out', phase') THEN 0 ELSE edge
  /\ UNCHANGED <<isrBuffer, rx, isrOverflow, poll, isrAvail, rxEnabled, got, answer, old, due, raced, exchanges>>

-----------------------------------------------------------------------------
(* The hub *)

(* Mutant: circular_queue::push does not look for the end.                 *)
RxBitISRBlind ==
  /\ edge >= 0
  /\ edge' = -1
  /\ isrBuffer' = Append(isrBuffer, [cycle |-> now, level |-> Line(out, phase)])
  /\ UNCHANGED <<boardVars, rx, isrOverflow, poll, isrAvail, held, rxEnabled, got, now, history>>

(* rxBitISR(): clock and level as they are when it runs.                   *)
RxBitISR ==
  /\ edge >= 0
  /\ edge' = -1
  /\ IF Len(isrBuffer) < IsrCapacity
     THEN /\ isrBuffer' = Append(isrBuffer, [cycle |-> now, level |-> Line(out, phase)])
          /\ UNCHANGED isrOverflow
     ELSE isrOverflow' = TRUE /\ UNCHANGED isrBuffer
  /\ UNCHANGED <<boardVars, rx, poll, isrAvail, held, rxEnabled, got, now, history>>

(* flush(), println() and enableTx(false).  flush() drops the bytes, not   *)
(* the changes; the writes of println() decode those, and the second write *)
(* comes late enough to complete a byte that was cut off.  By then a board *)
(* that answered late has finished.                                        *)
Request ==
  /\ ~rxEnabled /\ exchanges < MaxExchanges
  /\ out = << >>
  /\ LET r == Complete(Drained([rx EXCEPT !.buffer = << >>])) IN
     /\ rx' = [r EXCEPT !.bit = DataBits, !.cycle = 0, !.level = 1, !.refused = FALSE]
     /\ old' = r.buffer
  /\ isrBuffer' = << >> /\ isrOverflow' = FALSE
  /\ rxEnabled' = TRUE /\ now' = 0 /\ got' = << >>
  /\ out' \in Answers \cup {<< >>} /\ answer' = out'
  /\ raced' = FALSE
  /\ exchanges' = exchanges + 1
  /\ UNCHANGED <<phase, quiet, edge, poll, isrAvail, held, due, lateISRs>>

Over == Len(answer) - Len(out)

(* available() calls rxBits(), which first asks how many changes there are *)
(* (the task does not run while the interrupt is due) ...                  *)
Available ==
  /\ rxEnabled /\ poll = "none" /\ edge = -1
  /\ poll' = "rxBits" /\ isrAvail' = Len(isrBuffer)
  /\ due' = IF isrBuffer = << >> /\ (phase # -1 \/ quiet > MaxLatency)
            THEN Len(old) + Over ELSE 0
  /\ UNCHANGED <<boardVars, edge, isrBuffer, rx, isrOverflow, held, rxEnabled, now, got, answer,
                 old, raced, exchanges, lateISRs>>

(* ... then, if there were none, makes up a stop bit that is overdue, and  *)
(* decodes all that have come by now.  The character is read at once.      *)
FauxDue == isrAvail = 0 /\ rx.bit < DataBits /\ now > Expected(rx)

RxBits ==
  /\ poll = "rxBits" /\ edge = -1
  /\ raced' = \/ raced
              \/ /\ FauxDue /\ isrBuffer # << >>
                 /\ BitCount(Expected(rx) - isrBuffer[1].cycle) > 0
  /\ isrBuffer' = << >> /\ isrAvail' = 0 /\ held' = 0 /\ due' = 0
  /\ LET r == Drained(IF FauxDue THEN Complete(rx) ELSE rx) IN
     IF r.buffer = << >>
     THEN rx' = r /\ poll' = "none" /\ UNCHANGED got
     ELSE /\ rx' = [r EXCEPT !.buffer = Tail(@)]
          /\ got' = Append(got, Head(r.buffer))
          /\ poll' = IF Head(r.buffer) \in Control THEN "done" ELSE "none"
  /\ UNCHANGED <<boardVars, edge, isrOverflow, rxEnabled, now, answer, old,
                 exchanges, lateISRs>>

TimeOut ==
  /\ rxEnabled /\ poll = "none" /\ now = Timeout
  /\ poll' = "done"
  /\ UNCHANGED <<boardVars, edge, isrBuffer, rx, isrOverflow, isrAvail, held, rxEnabled, got, now,
                 history>>

(* enableTx(true), after what was heard has been processed                 *)
StopListening ==
  /\ poll = "done" /\ edge = -1
  /\ poll' = "none" /\ rxEnabled' = FALSE /\ now' = 0
  /\ UNCHANGED <<boardVars, edge, isrBuffer, rx, isrOverflow, isrAvail, held, got, answer, old,
                 due, raced, exchanges, lateISRs>>

Next ==
  \/ StartBit \/ Tick \/ RxBitISR
  \/ Request \/ Available \/ RxBits \/ TimeOut \/ StopListening

Spec == Init /\ [][Next]_vars
-----------------------------------------------------------------------------
(* Properties *)

(* Every variable keeps its kind, and no buffer holds more than it can.    *)
TypeOK ==
  /\ out \in Seq(Bytes) /\ phase \in -1 .. Frame - 1 /\ (phase # -1 => out # << >>)
  /\ edge \in -1 .. MaxLatency
  /\ isrBuffer \in Seq([cycle : 0 .. Timeout, level : {0, 1}])
  /\ Len(isrBuffer) <= IsrCapacity
  /\ rx.bit \in -1 .. DataBits /\ rx.level \in {0, 1} /\ rx.cycle \in Int
  /\ rx.buffer \in Seq(Bytes) /\ Len(rx.buffer) <= BufCapacity
  /\ got \in Seq(Bytes) /\ now \in 0 .. Timeout

Decoded == got \o rx.buffer

(* Nothing was lost to a full ring, and no poll was held up between its    *)
(* question and its answer.                                                *)
Sound == ~raced /\ ~isrOverflow /\ ~rx.refused

(* Whenever the task polls and however late the interrupt runs, what is    *)
(* read is what the board sent, in order and without a hole, behind what   *)
(* the exchange before left over.                                          *)
DecodedInOrder == rxEnabled /\ Sound => IsPrefix(Decoded, old \o answer)

(* When an answer was heard up to its carriage return, at most one         *)
(* character heads the next exchange: the line feed, or, if that was cut   *)
(* off, one with its highest bit set, which no line of the protocol has.   *)
LeftoverIsLineEnd ==
  [][~rxEnabled /\ rxEnabled' /\ Sound
     /\ answer # << >> /\ Last(answer) = LF /\ got = old \o Front(answer)
     => \/ old' \in {<< >>, <<LF>>}
        \/ Len(old') = 1 /\ old'[1][DataBits] = 1]_vars

(* A last byte is not withheld until the next change of the line: a poll   *)
(* that begins on a silent line without changes to decode leaves every     *)
(* byte sent so far readable.                                              *)
NothingWithheld ==
  [][poll = "rxBits" /\ poll' # "rxBits" /\ Sound' => Len(Decoded') >= due]_vars
=============================================================================
