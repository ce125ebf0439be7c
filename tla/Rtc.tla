-------------------------------- MODULE Rtc --------------------------------
(***************************************************************************)
(* The real time clock and the code that reads it at start                 *)
(* (arch/x86_64/cmos.c, time_init() in generic/time/time.c).  The clock    *)
(* counts on while its registers are read one by one.  cmos_to_unix()      *)
(* therefore reads them until two dumps agree; cmos_time() reads them once.*)
(*                                                                         *)
(* An update of the clock is announced by a bit, which both wait for, but  *)
(* it may come in the middle of a dump all the same.                       *)
(***************************************************************************)
EXTENDS Integers, Sequences

CONSTANTS
    Starts,    \* what the registers may hold at first, as binary numbers
    Quiet      \* the dumps for which there is time, at least, between two updates

ASSUME RtcAssumption ==
    /\ Quiet \in Nat \ {0}
    /\ \A s \in Starts : s \in Seq(0..99) /\ Len(s) = 6

VARIABLES
    now,      \* the registers of the clock
    uip,      \* its "update in progress" bit
    quiet,    \* dumps since the last update that none interrupted, up to Quiet
    clean,    \* whether the dump that is going on is one of them
    pc,
    index,    \* the register that is read next
    data, prevData,
    tm,       \* what localtime() returned, binary
    timestamp,
    seen      \* history: what the registers held since cmos_to_unix() began

clock == <<now, uip>>
rtcVars == <<now, uip, quiet, clean, pc, index, data, prevData, tm, timestamp, seen>>

\* The registers that are used, in the order in which a dump reads them.
Register == 1..6
Second == 1
Minute == 2
Hour == 3
Day == 4
Month == 5
Year == 6

Bcd(val) == (val \div 10) * 16 + (val % 10)
BcdToBin(val) == (val \div 16) * 10 + (val % 16)
CmosGet(r, val) == BcdToBin(val[r])

-----------------------------------------------------------------------------
(* The calendar, as cmos.c computes it                                     *)

IsLeapYear(year) == (year % 4 = 0 /\ year % 100 # 0) \/ year % 400 = 0

\* leap_years_correction() without the rule for 2000.
LeapYearsCorrection1900(days, year) ==
    IF year % 4 # 0 \/ year % 100 = 0 THEN days ELSE days + 1

LeapYearsCorrection(days, year) ==
    IF year % 4 # 0 \/ (year % 100 = 0 /\ year % 400 # 0) THEN days ELSE days + 1

\* All of the years from 1970 to year + 2000.
SecsSinceEpoch(year) ==
    LET days[y \in 1969..2100] ==
            IF y = 1969 THEN 0 ELSE LeapYearsCorrection(days[y - 1] + 365, y)
    IN  days[year + 2000] * 86400

DaysOfMonth == <<31, 28, 31, 30, 31, 30, 31, 31, 30, 31, 30, 31>>

\* The word before the array is read for month 0; two of the numbers it may be.
Outside == {0, 31}

SecsInMonth(month, year) ==
    {d * 86400 : d \in IF month = 2 /\ IsLeapYear(year + 2000) THEN {29}
                       ELSE IF month = 0 THEN Outside
                       ELSE {DaysOfMonth[month]}}

\* cmos_get_unix_timestamp(): the numbers it may return.
UnixTimestamps(val) ==
    {SecsSinceEpoch(CmosGet(Year, val) - 1) + m
        + (CmosGet(Day, val) - 1) * 86400 + CmosGet(Hour, val) * 3600
        + CmosGet(Minute, val) * 60 + CmosGet(Second, val) :
     m \in SecsInMonth(CmosGet(Month, val) - 1, CmosGet(Year, val))}

-----------------------------------------------------------------------------
(* The clock                                                               *)

\* A month that is over starts again, the year after the last one too.
DaysIn(month, year) == IF month = 2 /\ IsLeapYear(year + 2000) THEN 29 ELSE DaysOfMonth[month]

\* One second later: a register counts when those before it are at their end.
Advance(val) ==
    LET v == [r \in Register |-> CmosGet(r, val)]
        first == <<0, 0, 0, 1, 1, 0>>
        last == <<59, 59, 23, DaysIn(v[Month], v[Year]), 12, 99>>
        over == {r \in Register : \A q \in 1..r : v[q] = last[q]}
    IN  [r \in Register |->
            IF r \in over THEN Bcd(first[r])
            ELSE IF \A q \in 1..(r - 1) : q \in over THEN Bcd(v[r] + 1)
            ELSE val[r]]

\* There is one a second, and a dump takes less than a millisecond.  The clock is
\* followed until the call is over.
UpdateBegins ==
    /\ ~uip /\ quiet = Quiet /\ pc # "done"
    /\ uip' = TRUE
    /\ UNCHANGED <<now, quiet, clean, pc, index, data, prevData, tm, timestamp, seen>>

Update ==
    /\ uip
    /\ uip' = FALSE
    /\ now' = Advance(now)
    /\ seen' = seen \cup {now'}
    /\ quiet' = 0 /\ clean' = FALSE
    /\ UNCHANGED <<pc, index, data, prevData, tm, timestamp>>

-----------------------------------------------------------------------------
(* time_init()                                                             *)

RtcInit ==
    /\ now \in {[r \in Register |-> Bcd(s[r])] : s \in Starts}
    /\ uip \in BOOLEAN
    /\ quiet = Quiet /\ clean = FALSE
    /\ pc = "timeWait"
    /\ index = 1
    /\ data = [r \in Register |-> 0] /\ prevData = [r \in Register |-> 0]
    /\ tm = [r \in Register |-> 0] /\ timestamp = 0
    /\ seen = {now}

DumpOf == [timeWait |-> "timeDump", firstWait |-> "firstDump", wait |-> "dump"]

\* cmos_to_unix() without the memcpy.
DumpBeginsNoCopy ==
    /\ pc \in DOMAIN DumpOf /\ ~uip
    /\ pc' = DumpOf[pc]
    /\ index' = 1 /\ clean' = TRUE
    /\ UNCHANGED <<clock, quiet, data, prevData, tm, timestamp, seen>>

\* is_cmos_updating() says no and a dump begins; in the loop of cmos_to_unix()
\* the dump before it is kept.
DumpBegins ==
    /\ pc \in DOMAIN DumpOf /\ ~uip
    /\ pc' = DumpOf[pc]
    /\ index' = 1 /\ clean' = TRUE
    /\ prevData' = IF pc = "wait" THEN data ELSE prevData
    /\ UNCHANGED <<clock, quiet, data, tm, timestamp, seen>>

\* cmos_dump(): one register.
Read ==
    /\ pc \in {"timeDump", "firstDump", "dump"} /\ index \in Register
    /\ data' = [data EXCEPT ![index] = now[index]]
    /\ index' = index + 1
    /\ UNCHANGED <<clock, quiet, clean, pc, prevData, tm, timestamp, seen>>

\* A dump is over, and one more has fitted since the last update.
DumpEnds(at) ==
    /\ pc = at /\ index \notin Register
    /\ quiet' = IF clean /\ quiet < Quiet THEN quiet + 1 ELSE quiet
    /\ UNCHANGED <<clock, clean, index, data, prevData>>

\* cmos_time() takes the first dump for the time; cmos_to_unix() is called next.
CmosTime ==
    /\ DumpEnds("timeDump")
    /\ tm' = [r \in Register |-> CmosGet(r, data)]
    /\ seen' = {now}
    /\ pc' = "firstWait"
    /\ UNCHANGED timestamp

CmosUpdated ==
    /\ DumpEnds("firstDump")
    /\ pc' = "wait"
    /\ UNCHANGED <<tm, timestamp, seen>>

\* cmos_to_unix() without its second dump.
CompareNothing ==
    /\ DumpEnds("dump")
    /\ timestamp' \in UnixTimestamps(data)
    /\ pc' = "done"
    /\ UNCHANGED <<tm, seen>>

\* Two dumps in a row that agree are the time.
Compare ==
    /\ DumpEnds("dump")
    /\ IF prevData = data
       THEN /\ timestamp' \in UnixTimestamps(data) /\ pc' = "done"
       ELSE /\ pc' = "wait" /\ UNCHANGED timestamp
    /\ UNCHANGED <<tm, seen>>

Step == DumpBegins \/ Read \/ CmosTime \/ CmosUpdated \/ Compare

RtcNext == UpdateBegins \/ Update \/ Step

RtcSpec == RtcInit /\ [][RtcNext]_rtcVars

\* The processor executes the loop, and an update that was announced happens.
RtcFairSpec == RtcSpec /\ WF_rtcVars(Step) /\ WF_rtcVars(Update)

-----------------------------------------------------------------------------
(* Properties                                                              *)

\* cmos_to_unix(): the registers it converts are ones the clock held together,
\* at a moment of the call, though it reads them one by one.
SnapshotWasTime == pc = "done" => data \in seen

\* The Unix time of a date by the Gregorian calendar.
UnixTime(val) ==
    LET year == CmosGet(Year, val) + 2000
        leaps == (year - 1) \div 4 - (year - 1) \div 100 + (year - 1) \div 400
        before[m \in 0..11] ==
            IF m = 0 THEN 0 ELSE before[m - 1] + DaysIn(m, CmosGet(Year, val))
    IN  ((year - 1970) * 365 + leaps - 477 + before[CmosGet(Month, val) - 1]
            + CmosGet(Day, val) - 1) * 86400
        + CmosGet(Hour, val) * 3600 + CmosGet(Minute, val) * 60 + CmosGet(Second, val)

\* cmos_get_unix_timestamp(): the timestamp is the Unix time of a moment of the
\* call -- in February.
ExactInFebruary ==
    pc = "done" /\ CmosGet(Month, data) = 2 => \E s \in seen : timestamp = UnixTime(s)

\* The same in every month: "get unix timestamp from CMOS values".
UnixExact == pc = "done" => \E s \in seen : timestamp = UnixTime(s)

\* cmos_time(): "get tm structure" of one moment of the call.
TmWasTime == [][CmosTime => \E s \in seen : tm' = [r \in Register |-> CmosGet(r, s)]]_rtcVars

\* The loop ends.
CallReturns == <>(pc = "done")
=============================================================================
