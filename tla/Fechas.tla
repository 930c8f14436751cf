-------------------------------- MODULE Fechas --------------------------------
(***************************************************************************)
(* The calendar of module fechas: next_month, and the eleven patterns by   *)
(* which parse_date and parse_datetime read a text. The first pattern that *)
(* matches decides, so a text that a stranger's pattern matches first is   *)
(* read wrong, or refused.                                                 *)
(*                                                                         *)
(* A text is a sequence of tokens: numbers with their digits, names of     *)
(* months, and marks. Digits without a mark between them (20240131) are a  *)
(* token for each field. A mark is named by its sign, or by a word where   *)
(* the sign is a blank or has one: comma_blank is ", " and de is " de ".   *)
(***************************************************************************)
EXTENDS Integers, Sequences, SequencesExt, FiniteSets, FiniteSetsExt

CONSTANTS FirstDay, LastDay    \* the calendar is walked between these dates

VARIABLE day                   \* the date of today, <<year, month, day>>

-----------------------------------------------------------------------------
(* Dates *)

IsLeap(y) == y % 4 = 0 /\ (y % 100 # 0 \/ y % 400 = 0)

\* calendar.monthrange(y, m)[1]
MonthRange(y, m) == CASE m \in {4, 6, 9, 11} -> 30
                      [] m = 2 -> IF IsLeap(y) THEN 29 ELSE 28
                      [] OTHER -> 31

MAXYEAR == 9999    \* of module datetime

IsDate(d) == d[1] \in 1..MAXYEAR /\ d[2] \in 1..12 /\ d[3] \in 1..MonthRange(d[1], d[2])

\* d comes before e.
Before(d, e) ==
    \/ d[1] < e[1]
    \/ d[1] = e[1] /\ d[2] < e[2]
    \/ d[1] = e[1] /\ d[2] = e[2] /\ d[3] < e[3]

ASSUME FechasAssumption ==
    /\ \A d \in {FirstDay, LastDay} : d \in Nat \X Nat \X Nat /\ IsDate(d)
    /\ FirstDay = LastDay \/ Before(FirstDay, LastDay)
    /\ LastDay[1] < MAXYEAR

next_day(d) == IF d[3] < MonthRange(d[1], d[2]) THEN <<d[1], d[2], d[3] + 1>>
               ELSE IF d[2] < 12 THEN <<d[1], d[2] + 1, 1>>
               ELSE <<d[1] + 1, 1, 1>>

MonthAfter(d) == IF d[2] < 12 THEN <<d[1], d[2] + 1>> ELSE <<d[1] + 1, 1>>

\* Wrong variant: the length of the month that ends.
next_month_OldLength(d) ==
    LET ym == MonthAfter(d) IN <<ym[1], ym[2], Min({MonthRange(d[1], d[2]), d[3]})>>

\* The same day of the next month, or its last one.
next_month(d) ==
    LET ym == MonthAfter(d) IN <<ym[1], ym[2], Min({MonthRange(ym[1], ym[2]), d[3]})>>

-----------------------------------------------------------------------------
(* Texts and patterns *)

Num(digits, v) == [kind |-> "num", digits |-> digits, value |-> v]
Month(m) == [kind |-> "word", digits |-> 0, value |-> m]
Mark(c) == [kind |-> c, digits |-> 0, value |-> 0]

\* Elements of a pattern: \d{n} or \d+, \w+, and a mark out of a set.
Digits(field, ns) == [field |-> field, kinds |-> {"num"}, digits |-> ns]
Word(field) == [field |-> field, kinds |-> {"num", "word"}, digits |-> 1..9]
Letters(field) == [field |-> field, kinds |-> {"word"}, digits |-> {}]
OneOf(marks) == [field |-> "none", kinds |-> marks, digits |-> {}]

Some == 1..9
Separators == {"\\", "/", ":", ".", "comma", "-", "blank"}

Clock(ns) == <<Digits("hour", ns), OneOf({":"}), Digits("minute", ns),
               OneOf({":"}), Digits("second", ns)>>

\* Wrong variant: years of two digits or more.
PAT_DMY_ShortYear == {<<Digits("day", Some), OneOf(Separators \cup {"comma_blank"}), Word("month"),
                        OneOf(Separators), Digits("year", {2, 4})>>}

\* A pattern is the set of the sequences it stands for. [...]+ takes one mark,
\* or a comma and a blank.
PAT_DMY == {<<Digits("day", Some), OneOf(Separators \cup {"comma_blank"}), Word("month"),
              OneOf(Separators), Digits("year", {4})>>}

IsoDate == <<Digits("year", {4}), OneOf({"-"}), Digits("month", {2}), OneOf({"-"}),
             Digits("day", {2})>>
BasicDate == <<Digits("year", {4}), Digits("month", {2}), Digits("day", {2})>>
BasicClock == <<Digits("hour", {2}), Digits("minute", {2}), Digits("second", {2})>>

PAT_ISO8601_DATE_EXT == {IsoDate}
PAT_ISO8601_DATETIME_EXT_BASIC ==
    {IsoDate \o <<OneOf({"blank", "T"})>> \o Clock({2}) \o zone : zone \in {<<>>, <<OneOf({"zone"})>>}}
PAT_ISO8601_DATE_BASIC == {BasicDate}
PAT_ISO8601_DATETIME_BASIC == {BasicDate \o BasicClock}

RfcDate == <<Digits("day", Some), OneOf({"blank"}), Word("month"), OneOf({"blank"}), Digits("year", Some)>>
Weekday == {<<>>, <<OneOf({"weekday"})>>}

\* .+ at the end takes what follows the seconds or, when nothing does, their
\* last digit.
PAT_RFC822_DATETIME ==
    {w \o RfcDate \o <<OneOf({"blank"})>> \o Clock(Some) \o <<OneOf({"zone"})>> : w \in Weekday}
    \cup {w \o RfcDate \o <<OneOf({"blank"})>> \o SubSeq(Clock(Some), 1, 4)
            \o <<Digits("tens", 2..9)>> : w \in Weekday}
PAT_RFC822_DATE == {w \o RfcDate : w \in Weekday}

PAT_FECHA_COMPLETA == {<<Digits("day", Some), OneOf({"de"}), Letters("month"),
                         OneOf({"de"}), Digits("year", Some)>>}

PAT_FECHA_HORA == {<<Digits("day", Some), OneOf({"-"}), Digits("month", Some), OneOf({"-"}),
                     Digits("year", Some), OneOf({"blank"})>> \o Clock({2})
                   \o <<OneOf({".", "comma", ":", "blank"}), Digits("fraction", Some)>>}

Numeric(years) == {<<Digits("day", {1, 2}), OneOf({"/", "-"}), Digits("month", {1, 2}),
                     OneOf({"/", "-"}), Digits("year", years), OneOf({"blank"})>> \o Clock(Some)}
PAT_DDMMYYYYHHMMSS == Numeric({4})
PAT_DDMMYYHHMMSS == Numeric({2})

PARSERS == <<PAT_DMY, PAT_ISO8601_DATETIME_EXT_BASIC, PAT_ISO8601_DATETIME_BASIC,
             PAT_ISO8601_DATE_BASIC, PAT_ISO8601_DATE_EXT, PAT_RFC822_DATETIME,
             PAT_RFC822_DATE, PAT_FECHA_COMPLETA, PAT_FECHA_HORA,
             PAT_DDMMYYYYHHMMSS, PAT_DDMMYYHHMMSS>>

-----------------------------------------------------------------------------
(* parse_date, parse_datetime *)

Fits(token, element) ==
    /\ token.kind \in element.kinds
    /\ token.kind = "num" => token.digits \in element.digits

Matches(text, pattern) ==
    {p \in pattern : Len(p) = Len(text) /\ \A i \in DOMAIN p : Fits(text[i], p[i])}

\* The group field of a match; 0 stands for a group that is not in the pattern.
Group(text, p, field) ==
    LET at == {i \in DOMAIN p : p[i].field = field}
    IN  IF at = {} THEN 0 ELSE text[CHOOSE i \in at : TRUE].value

_to_year_month_day(text, p) ==
    LET y == Group(text, p, "year")
    IN  <<IF y <= 100 THEN y + 2000 ELSE y, Group(text, p, "month"), Group(text, p, "day")>>

_to_hour_minute_second(text, p) ==
    <<Group(text, p, "hour"), Group(text, p, "minute"),
      Group(text, p, "second") + Group(text, p, "tens") \div 10>>

IsClock(t) == t[1] \in 0..23 /\ t[2] \in 0..59 /\ t[3] \in 0..59

\* The date and time, or ValueError (<<>>): no pattern matches, or the first
\* one that does gives no date.
parse_datetime(text) ==
    LET matching == {i \in DOMAIN PARSERS : Matches(text, PARSERS[i]) # {}}
        p == CHOOSE q \in Matches(text, PARSERS[Min(matching)]) : TRUE
        date == _to_year_month_day(text, p)
        time == _to_hour_minute_second(text, p)
    IN  IF matching # {} /\ IsDate(date) /\ IsClock(time) THEN date \o time ELSE <<>>

\* Splits at the first of ".", "/" and "-" that occurs; three pieces.
dmy(text) ==
    LET marks == {i \in 1..3 : \E t \in Range(text) : t.kind = <<".", "/", "-">>[i]}
        c == <<".", "/", "-">>[Min(marks)]
    IN  IF marks # {} /\ Len(text) = 5 /\ text[2].kind = c /\ text[4].kind = c
        THEN <<text[5].value, text[3].value, text[1].value>>
        ELSE <<>>

ymd(text) == <<text[1].value, text[3].value, text[5].value>>

-----------------------------------------------------------------------------
StartWalking == day = FirstDay

\* Another day.
Tomorrow == day # LastDay /\ day' = next_day(day)
=============================================================================
