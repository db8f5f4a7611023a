------------------------------- MODULE Review -------------------------------
(***************************************************************************)
(* Project review (review.py, and the review queue of api_service.py): a   *)
(* project has an interval at which it is to be reviewed, the date it was  *)
(* last reviewed and the date of the next review, any of which may be      *)
(* missing.  Days go by, projects are marked as reviewed, now or at a date *)
(* that the request names, and the OmniFocus app sets interval, next       *)
(* review and status as it likes.  That a request may write over what      *)
(* others did since its load is the matter of Entities.                    *)
(***************************************************************************)
EXTENDS Calendar, FiniteSetsExt, SequencesExt

CONSTANTS
    Assigned,      \* the interval that each project has at first; projects are
                   \* numbered in the order that breaks ties: rank, name, id
    Intervals,     \* review intervals the app may set, NoInterval among them
    Days,          \* the days on which somebody looks
    Statuses,      \* statuses the app may set
    MaxEdits       \* bound: edits by the app

ASSUME IntervalsAssumption ==
    /\ \A interval \in Intervals : interval.count \in Nat
    /\ Assigned \in Seq(Intervals)

EndOfTime == DayNumber(Date(9999, 12, 31))

\* Nobody looks at the end of time or later.
ASSUME DaysAssumption ==
    \A x \in Days : x = Date(x.y, x.m, x.d) /\ x.y \in Nat /\ IsDate(x) /\ DayNumber(x) < EndOfTime

ASSUME EditsAssumption == MaxEdits \in Nat

VARIABLES
    project,
    today,
    edits      \* by the app

vars == <<project, today, edits>>

Projects == DOMAIN Assigned

Missing == Rejected                                   \* no date
Unparsed == [count |-> 0, unit |-> "none"]
NoInterval == [prefix |-> ""] @@ Unparsed

-----------------------------------------------------------------------------
\* An interval is a prefix, a count and a unit; the prefix is ignored, and
\* other units are no intervals.
ParseReviewInterval(interval) ==
    IF interval.unit \in {"d", "w", "m", "y"}
    THEN [count |-> interval.count, unit |-> interval.unit]
    ELSE Unparsed

AddReviewInterval(base, interval) ==
    LET parsed == ParseReviewInterval(interval)
    IN  IF parsed = Unparsed THEN Missing
        ELSE CASE parsed.unit = "d" -> AddDays(base, parsed.count)
               [] parsed.unit = "w" -> AddDays(base, 7 * parsed.count)
               [] parsed.unit = "m" -> AddMonths(base, parsed.count)
               [] parsed.unit = "y" -> AddMonths(base, 12 * parsed.count)

Reached(x) == DayNumber(x) <= DayNumber(today)

State(due, basis, at) == [due |-> due, basis |-> basis, at |-> at]

ComputeReviewState(p) ==
    LET at == IF p.last = Missing THEN Missing ELSE AddReviewInterval(p.last, p.interval)
    IN  IF p.next # Missing THEN State(Reached(p.next), "next_review", p.next)
        ELSE IF p.last = Missing /\ ParseReviewInterval(p.interval) # Unparsed
        THEN State(TRUE, "interval", Missing)
        ELSE IF at # Missing THEN State(Reached(at), "interval", at)
        ELSE State(FALSE, "unknown", Missing)

\* Mutant: a next review that is there is kept.
ReviewedKeepsNext(p, stamp) ==
    [p EXCEPT !.last = stamp,
              !.next = IF @ = Missing THEN AddReviewInterval(stamp, p.interval) ELSE @]

\* Without an interval the next review stays what it was.
Reviewed(p, stamp) ==
    LET next == AddReviewInterval(stamp, p.interval)
    IN  [p EXCEPT !.last = stamp, !.next = IF next = Missing THEN @ ELSE next]

-----------------------------------------------------------------------------
(* The queue: what is due comes first, then what will be, then the rest;   *)
(* the earliest first, and a project that was never reviewed and has no    *)
(* date last among those that are due.                                     *)

Bucket(state) == IF state.basis = "unknown" THEN 2 ELSE IF state.due THEN 0 ELSE 1

DueNumber(state) == IF state.at = Missing THEN EndOfTime ELSE DayNumber(state.at)

\* Mutant: the queue is sorted by date alone.
ComesBeforeByDate(i, j) ==
    LET a == ComputeReviewState(project[i])
        b == ComputeReviewState(project[j])
    IN  \/ DueNumber(a) < DueNumber(b)
        \/ DueNumber(a) = DueNumber(b) /\ i < j

ComesBefore(i, j) ==
    LET a == ComputeReviewState(project[i])
        b == ComputeReviewState(project[j])
    IN  \/ Bucket(a) < Bucket(b)
        \/ Bucket(a) = Bucket(b) /\ DueNumber(a) < DueNumber(b)
        \/ Bucket(a) = Bucket(b) /\ DueNumber(a) = DueNumber(b) /\ i < j

\* A list, each project once, in the order of the sort keys; there is only one.
Queue(listed) ==
    CHOOSE queue \in SetToSeqs(listed) :
        \A k, l \in DOMAIN queue : k < l => ComesBefore(queue[k], queue[l])

ListProjectsForReview(dueOnly, limit) ==
    LET candidates == {i \in Projects : project[i].status \in {"active", "inactive"}}
        listed == {i \in candidates : dueOnly => ComputeReviewState(project[i]).due}
        queue == Queue(listed)
    IN  SubSeq(queue, 1, IF Len(queue) <= limit THEN Len(queue) ELSE limit)

-----------------------------------------------------------------------------
Init ==
    /\ project = [i \in Projects |-> [interval |-> Assigned[i], last |-> Missing, next |-> Missing,
                                     status |-> "active"]]
    /\ today \in Days
    /\ edits = 0

NextDayComes ==
    /\ \E day \in Days : DayNumber(day) > DayNumber(today) /\ today' = day
    /\ UNCHANGED <<project, edits>>

\* The stamp is now, or the date that the request names.
MarkProjectReviewed(i, stamp) ==
    /\ project' = [project EXCEPT ![i] = Reviewed(@, stamp)]
    /\ UNCHANGED <<today, edits>>

\* The app's own changes.
AppSets(i) ==
    /\ edits < MaxEdits
    /\ edits' = edits + 1
    /\ \/ \E interval \in Intervals : project' = [project EXCEPT ![i].interval = interval]
       \/ \E next \in Days \union {Missing} : project' = [project EXCEPT ![i].next = next]
       \/ \E status \in Statuses : project' = [project EXCEPT ![i].status = status]
    /\ UNCHANGED today

Next ==
    \/ NextDayComes
    \/ \E i \in Projects :
           AppSets(i) \/ \E stamp \in {day \in Days : Reached(day)} : MarkProjectReviewed(i, stamp)

Spec == Init /\ [][Next]_vars

-----------------------------------------------------------------------------
(* Properties. *)

\* Dates are days of the calendar, however they were arrived at (review.py:155).
TypeOK ==
    /\ today \in Days
    /\ edits \in 0..MaxEdits
    /\ \A i \in Projects :
           /\ project[i].interval \in Intervals
           /\ \A x \in {project[i].last, project[i].next} \ {Missing} : IsDate(x)

\* Not due any more, and on the same date by either basis.
Settled(p) ==
    LET after == ComputeReviewState(p)
    IN  /\ ~after.due
        /\ ComputeReviewState([p EXCEPT !.next = Missing]).at = after.at

\* Once a project with an interval was reviewed just now it is no longer due,
\* whatever its next review was before and wherever the month ends; and the
\* two bases agree on when it will be: with the date of the next review gone,
\* the interval leads to the same date (review.py:113, review.py:76).
MarkedIsNotDue ==
    [][\A i \in Projects :
        LET parsed == ParseReviewInterval(project[i].interval)
        IN  (MarkProjectReviewed(i, today) /\ parsed # Unparsed /\ parsed.count > 0) =>
                Settled(project'[i])]_vars

\* So many months after a date, and on the same day of the month or, if there
\* is no such day, on the last: the latest of that month up to that day.
MonthsAfter(stamp, months, next) ==
    LET OfMonth == {x \in {Date(next.y, next.m, d) : d \in 1..31} : IsDate(x) /\ x.d <= stamp.d}
    IN  /\ next \in OfMonth
        /\ \A x \in OfMonth : DayNumber(x) <= DayNumber(next)
        /\ 12 * next.y + next.m = 12 * stamp.y + stamp.m + months

\* The next review n months from a date is on the same day of the month, or
\* on its last day if it has no such day (review.py:149).
MonthsKeepTheDay ==
    [][\A i \in Projects, stamp \in Days :
        LET parsed == ParseReviewInterval(project[i].interval)
        IN  (MarkProjectReviewed(i, stamp) /\ parsed # Unparsed /\ parsed.unit \in {"m", "y"}) =>
                MonthsAfter(stamp, IF parsed.unit = "y" THEN 12 * parsed.count ELSE parsed.count,
                    project'[i].next)]_vars

\* No limit cuts off a project that is due in favour of one that is not, nor
\* one that is long due for one that is due since later; and whoever asks for
\* all sees first what he would have seen had he asked for what is due
\* (api_common.py:112, api_service.py:411).
UrgentFirst ==
    \A limit \in 0..Cardinality(Projects) :
        LET wide == ListProjectsForReview(FALSE, limit)
            due == ListProjectsForReview(TRUE, limit)
            Open == {i \in Projects : project[i].status \in {"active", "inactive"}}
            Overdue == {i \in Open : ComputeReviewState(project[i]).due}
        IN  /\ Len(due) <= Len(wide) /\ SubSeq(wide, 1, Len(due)) = due
            /\ (Range(wide) \ Overdue # {}) => Overdue \subseteq Range(wide)
            /\ \A i \in Range(due), j \in Overdue \ Range(due) :
                   project[j].next # Missing =>
                       /\ project[i].next # Missing => DayNumber(project[i].next) <= DayNumber(project[j].next)
                       /\ ComputeReviewState(project[i]).at # Missing

\* What a user may type that does not name a date.
Tokens == {[kind |-> "today", weekday |-> 0], [kind |-> "tomorrow", weekday |-> 0]}
              \union {[kind |-> "weekday", weekday |-> w] : w \in 0..6}

\* A word for a day never means one that is past, a weekday is that weekday
\* of the next seven days and not today, and over any month's end; a day and
\* month are of this year or refused (dateparse.py:48).
DueIsAhead ==
    /\ \A value \in Tokens :
           LET ahead == DayNumber(ParseDue(today, value)) - DayNumber(today)
           IN  /\ IsDate(ParseDue(today, value))
               /\ ahead \in CASE value.kind = "today" -> {0} [] value.kind = "tomorrow" -> {1}
                              [] OTHER -> 1..7
               /\ value.kind = "weekday" => Weekday(ParseDue(today, value)) = value.weekday
    /\ \A m \in {2, 13} :
           ParseDue(today, [kind |-> "monthday", weekday |-> 0, m |-> m, d |-> 29]) = Rejected
               <=> ~(m = 2 /\ IsLeap(today.y))
=============================================================================
