----------------------------- MODULE Temperdev -----------------------------
(***************************************************************************)
(* The temperature thread (temperdev, hidtemp.cpp).  The hiddev driver     *)
(* queues one event for every usage of a report; read() takes what is      *)
(* queued, at most EvCells events, and the loop looks at the cells 1, 2    *)
(* and 3, whatever the number of events it got: for a read that begins     *)
(* with a report these are the temperature, for any other they are what    *)
(* the events or an earlier read have put there.                           *)
(*                                                                         *)
(* An event is known by its report and its place in it.                    *)
(***************************************************************************)
EXTENDS Naturals, Sequences

CONSTANTS
  EvCells,      \* struct hiddev_event ev[64]
  ReportLen,    \* the events of a report of the device
  MaxReports    \* bound: reports the device makes

ASSUME CellAssumption == EvCells \in Nat /\ EvCells > 3
ASSUME ReportAssumption == ReportLen \in Nat /\ ReportLen > 3
ASSUME BoundAssumption == MaxReports \in Nat

VARIABLES
  m_devfd,    \* the hiddev, a number that is not a descriptor, or another file
  zeros,      \* the reports of a device that has nothing to say: all 0
  arrived,    \* how many events the device has made
  taken,      \* how many of them read() has returned
  ev,         \* the cells: the number of the event in each, 0 if none yet
  got, at,    \* history: how many the last read returned, and taken before it
  cut,        \* history: a read met a report that had not arrived whole, or
              \*   more events than ev holds, and these are not whole reports
  submit_temperatue,  \* the text: the events its two bytes come from
  temper,     \* where the thread is
  m_temparture        \* the member of boardctl

readVars == <<taken, ev, got, at, cut>>
temperVars == <<m_devfd, zeros, arrived, readVars, submit_temperatue, temper,
          m_temparture>>

Cells == 0 .. EvCells - 1
None == <<0, 0>>      \* bytes of no event: what memory, or another file, held

\* Event number e, counted from 1.
Report(e) == (e - 1) \div ReportLen + 1
Place(e)  == (e - 1) % ReportLen
IsZero(e) == Report(e) \in zeros /\ Place(e) \in 1 .. 3

TemperdevInit ==
  /\ m_devfd = "unset"
  /\ zeros \in SUBSET (1 .. MaxReports)
  /\ arrived = 0 /\ taken = 0
  /\ ev = [c \in Cells |-> 0]
  /\ got = 0 /\ at = 0 /\ cut = FALSE
  /\ submit_temperatue = None
  /\ temper = "off"
  /\ m_temparture = None
-----------------------------------------------------------------------------
(* temperdev::init.                                                        *)

\* hid_device_init returns -1 without a device, but m_devfd is set only with
\* one, and the thread is started anyway.
TemperInit ==
  /\ temper = "off"
  /\ m_devfd' \in {"hiddev", "bad", "other"}
  /\ temper' = "read"
  /\ UNCHANGED <<zeros, arrived, readVars, submit_temperatue, m_temparture>>

\* The device: a report comes event by event.
Event ==
  /\ arrived < MaxReports * ReportLen
  /\ arrived' = arrived + 1
  /\ UNCHANGED <<m_devfd, zeros, readVars, submit_temperatue, temper, m_temparture>>
-----------------------------------------------------------------------------
(* temperdev::sub_routine.                                                 *)

\* The last whole report of the read.
Text_LastReport(cells, n) ==
  IF n >= 2 * ReportLen THEN <<cells[ReportLen + 2], cells[ReportLen + 3]>>
  ELSE <<cells[2], cells[3]>>
\* ev[2].value*256+ev[3].value
Text(cells, n) == <<cells[2], cells[3]>>

\* The cells behind the n that were read keep their events.
Filled(n) == [c \in Cells |-> IF c < n THEN taken + c + 1 ELSE ev[c]]

\* A cell that was never filled holds anything.
MayBeZero(c)  == ev'[c] = 0 \/ IsZero(ev'[c])
MayBeOther(c) == ev'[c] = 0 \/ ~IsZero(ev'[c])

\* Zeroes are written too.
Show_Always(n) == submit_temperatue' = Text(ev', n)
\* Three zeroes leave the text as it is.
Show(n) ==
  \/ /\ \A c \in 1 .. 3 : MayBeZero(c)
     /\ UNCHANGED submit_temperatue
  \/ /\ \E c \in 1 .. 3 : MayBeOther(c)
     /\ submit_temperatue' = Text(ev', n)

\* read(m_devfd, ev, sizeof(ev)) returns what is queued, if it fits.
Returned(queued) == IF queued < EvCells THEN queued ELSE EvCells

\* It blocks until there is an event.
HidRead ==
  LET queued == arrived - taken
      n == Returned(queued)
  IN
  /\ temper = "read" /\ m_devfd = "hiddev"
  /\ n > 0
  /\ taken' = taken + n
  /\ ev' = Filled(n)
  /\ got' = n /\ at' = taken
  /\ cut' = \/ cut
            \/ arrived % ReportLen # 0
            \/ queued > EvCells /\ EvCells % ReportLen # 0
  /\ Show(n)
  /\ temper' = "submit"
  /\ UNCHANGED <<m_devfd, zeros, arrived, m_temparture>>

\* Some other file of the process: its bytes, taken from whoever reads them.
ReadOther ==
  /\ temper = "read" /\ m_devfd = "other"
  /\ submit_temperatue' \in {submit_temperatue, None}
  /\ temper' = "submit"
  /\ UNCHANGED <<m_devfd, zeros, arrived, readVars, m_temparture>>

\* A failed read, or one of less than an event: the thread returns.
ReadFails ==
  /\ temper = "read"
  /\ temper' = "exit"
  /\ UNCHANGED <<m_devfd, zeros, arrived, readVars, submit_temperatue, m_temparture>>

\* 400 ms later; the text is submitted whether it was written or not.
SubmitTempature ==
  /\ temper = "submit"
  /\ m_temparture' = submit_temperatue
  /\ temper' = "read"
  /\ UNCHANGED <<m_devfd, zeros, arrived, readVars, submit_temperatue>>

-----------------------------------------------------------------------------
TemperdevNext ==
  \/ TemperInit \/ Event
  \/ HidRead \/ ReadOther \/ ReadFails
  \/ SubmitTempature

TemperdevSpec == TemperdevInit /\ [][TemperdevNext]_temperVars
-----------------------------------------------------------------------------
(* Properties.                                                             *)

TemperdevTypeOK ==
  /\ m_devfd \in {"unset", "hiddev", "bad", "other"}
  /\ zeros \subseteq 1 .. MaxReports
  /\ arrived \in Nat
  /\ taken \in 0 .. arrived
  /\ ev \in [Cells -> 0 .. taken]
  /\ got \in 0 .. EvCells /\ at \in 0 .. taken
  /\ cut \in BOOLEAN
  /\ submit_temperatue \in (0 .. taken) \X (0 .. taken)
  /\ temper \in {"off", "read", "submit", "exit"}
  /\ m_temparture \in (0 .. taken) \X (0 .. taken)

\* The two bytes are the temperature of report r.
IsTemperature(text, r) ==
  text = <<(r - 1) * ReportLen + 3, (r - 1) * ReportLen + 4>>

\* What boardctl has is the temperature of one report, and of one that has
\* a temperature; or it is text that nobody wrote, which is what is submitted
\* after every read until a report with a temperature has come.
WholeUnlessCut ==
  m_devfd = "hiddev" /\ ~cut /\ m_temparture # None =>
    \E r \in (1 .. MaxReports) \ zeros : IsTemperature(m_temparture, r)

\* A read that begins with a report and returns at least its temperature
\* shows it, unless that is zero.
Recovers ==
  LET r == Report(at + 1) IN
  temper = "submit" /\ m_devfd = "hiddev" =>
    (got > 3 /\ Place(at + 1) = 0 /\ r \notin zeros
       => IsTemperature(submit_temperatue, r))

\* As long as reports are queued whole and no backlog is cut inside a
\* report, what boardctl is given is the temperature of one report, though
\* a read returns any number of them and nothing looks at that number; while
\* all reports so far were zeroes it is given memory nobody initialised.  After
\* a cut the readings are wrong, but not for good.
TemperatureRight == TemperdevTypeOK /\ WholeUnlessCut /\ Recovers

\* The cells keep old events and a report of zeroes keeps an old text, and
\* yet the temperature boardctl has never goes back to an older byte, cut or
\* not.
NeverGoesBack ==
  [][m_devfd = "hiddev" =>
       \A i \in 1 .. 2 : m_temparture'[i] >= m_temparture[i]]_temperVars
=============================================================================
