----------------------------- MODULE MCFunctions -----------------------------
(* fechas over a calendar of fifteen months, and seqtools over all texts of  *)
(* up to six signs: each behaviour is one or the other.                      *)
EXTENDS Fechas, Seqtools

MCFirstDay == <<2023, 12, 1>>
MCLastDay == <<2025, 3, 1>>

MCInputs == UNION {[1..n -> {"x", "blank", "newline"}] : n \in 0..6}

MCInit ==
    \/ StartWalking /\ job = "batch" /\ input = <<>> /\ rest = <<>> /\ given = <<>> /\ ended = TRUE
    \/ day = LastDay /\ StartCutting

MCNext ==
    \/ Tomorrow /\ UNCHANGED seqVars
    \/ Cutting /\ UNCHANGED day

MCSpec == MCInit /\ [][MCNext]_<<day, seqVars>> /\ WF_seqVars(Cutting)

-----------------------------------------------------------------------------
(* Properties *)

Y == day[1]
M == day[2]
D == day[3]
Time == <<(7 * D) % 24, (5 * M + 11 * D) % 60, (13 * D) % 60>>

Joined(mark, parts) == <<parts[1], mark, parts[2], mark, parts[3]>>

Clock2 == Joined(Mark(":"), [i \in 1..3 |-> Num(2, Time[i])])
Day2 == Joined(Mark("-"), <<Num(2, D), Num(2, M), Num(4, Y)>>)
Day1 == <<Num(IF D < 10 THEN 1 ELSE 2, D)>>
IsoDay == Joined(Mark("-"), <<Num(4, Y), Num(2, M), Num(2, D)>>)
RfcDay(year) == Day1 \o <<Mark("blank"), Month(M), Mark("blank"), year>>

\* How the day is written by those who write no time.
DmyDays == {Joined(Mark(c), <<Num(2, D), Num(2, M), Num(4, Y)>>) : c \in {"/", ".", "-", "blank"}}
IsoDays == {IsoDay, <<Num(4, Y), Num(2, M), Num(2, D)>>}
RfcDays == {w \o RfcDay(year) : w \in {<<>>, <<Mark("weekday")>>},
                                year \in {Num(4, Y), Num(2, Y % 100)}}
NamedDays == {Day1 \o <<Mark(c), Month(M), Mark("blank"), Num(4, Y)>> : c \in {"comma_blank", "-"}}
                \cup {Day1 \o <<Mark("de"), Month(M), Mark("de"), Num(4, Y)>>}
Days == DmyDays \cup IsoDays \cup RfcDays \cup NamedDays

\* And by those who do.
IsoTimes == {IsoDay \o <<Mark(c)>> \o Clock2 \o z : c \in {"blank", "T"},
                                                    z \in {<<>>, <<Mark("zone")>>}}
               \cup {<<Num(4, Y), Num(2, M), Num(2, D)>> \o [i \in 1..3 |-> Num(2, Time[i])]}
RfcTimes == {w \o RfcDay(Num(4, Y)) \o <<Mark("blank")>> \o Clock2 \o <<Mark("zone")>> :
                w \in {<<>>, <<Mark("weekday")>>}}
DmyTimes == {Day2 \o <<Mark("blank")>> \o Clock2 \o z : z \in {<<>>, <<Mark("."), Num(6, 0)>>}}
               \cup {Joined(Mark("/"), <<Num(2, D), Num(2, M), year>>) \o <<Mark("blank")>> \o Clock2 :
                        year \in {Num(4, Y), Num(2, Y % 100)}}
Moments == IsoTimes \cup RfcTimes \cup DmyTimes

\* Every pattern that matches the text reads this in it.
AllRead(text, when) ==
    \A i \in DOMAIN PARSERS : \A p \in Matches(text, PARSERS[i]) :
        _to_year_month_day(text, p) \o _to_hour_minute_second(text, p) = when

\* A date is read as it was written, in each layout that one of the patterns is
\* for, whichever of them come first; dmy and ymd read the same in theirs. An
\* RFC 822 time without a zone loses the last digit of its seconds. A moment
\* written by str(), which has a fraction, is refused rather than misread,
\* although the pattern FECHA_HORA matches it.
ReadAsWritten ==
    /\ \A t \in Days : parse_datetime(t) = day \o <<0, 0, 0>> /\ AllRead(t, day \o <<0, 0, 0>>)
    /\ \A t \in Moments : parse_datetime(t) = day \o Time /\ AllRead(t, day \o Time)
    /\ \A c \in {"/", ".", "-"} : dmy(Joined(Mark(c), <<Num(2, D), Num(2, M), Num(4, Y)>>)) = day
    /\ ymd(IsoDay) = day
    /\ parse_datetime(RfcDay(Num(4, Y)) \o <<Mark("blank")>> \o Clock2)
         = day \o <<Time[1], Time[2], Time[3] \div 10>>
    /\ parse_datetime(IsoDay \o <<Mark("blank")>> \o Clock2 \o <<Mark("."), Num(6, 0)>>) = <<>>

\* The days of a year before a month.
DaysBefore(year, month) ==
    <<0, 31, 59, 90, 120, 151, 181, 212, 243, 273, 304, 334>>[month]
      + (IF month > 2 /\ IsLeap(year) THEN 1 ELSE 0)

\* Days from the first one of year 1.
Ordinal(date) ==
    365 * (date[1] - 1) + (date[1] - 1) \div 4 - (date[1] - 1) \div 100 + (date[1] - 1) \div 400
      + DaysBefore(date[1], date[2]) + date[3]

\* "El mismo dia de ese mes, si puede, y si no, el dia mas cercano": next_month
\* is a month away, or nearer by the days that the next month lacks; it never
\* skips a month, and of two days the later one's is not the earlier. This is the
\* rule of its documentation, which its example contradicts.
NextMonthNear ==
    LET n == next_month(day)
        lack == D - MonthRange(n[1], n[2])
    IN  /\ IsDate(n)
        /\ Ordinal(n) = Ordinal(day) + MonthRange(Y, M) - Max({0, lack})
        /\ Ordinal(next_month(next_day(day))) >= Ordinal(n)

\* The example of next_month's documentation: after the 31st of January comes the
\* 27th of February, or the 28th in a leap year.
NextMonthExample ==
    M = 1 /\ D = 31 => next_month(day) = <<Y, 2, IF IsLeap(Y) THEN 28 ELSE 27>>

\* Nothing is lost or added by cutting; a batch has size items but for the last
\* one, a fragment between mean_block_size and max_block_size signs but for the
\* last, which may be shorter; and no piece is empty.
PiecesFit ==
    LET bounds == IF job = "batch" THEN <<size, size>> ELSE <<mean_block_size, max_block_size>>
    IN  /\ FlattenSeq(given) \o rest = input
        /\ \A i \in DOMAIN given :
             /\ Len(given[i]) \in 1..bounds[2]
             /\ i < Len(given) \/ rest # <<>> => Len(given[i]) >= bounds[1]

\* A text is cut up some day: no fragment is empty for ever.
CutUp == <>ended
=============================================================================
